---- MODULE Spec2Model ----
\* Model of the LSP adapter of the Verilog language server
\* (verible/verilog/tools/ls/verible-lsp-adapter.cc): the operations that turn
\* one parsed-and-linted buffer snapshot into diagnostics, code actions and
\* formatting edits.  The buffer tracker, the parser, the lint engine and the
\* formatter are collaborators of the adapter; they appear here as the inputs
\* the adapter reads.
EXTENDS Integers, Sequences, FiniteSets, TLC

VARIABLES
    has_tracker,  \* whether a BufferTracker exists for the document (pointer non-null)
    current,      \* BufferTracker::current(): latest snapshot, or Null
    last_good,    \* BufferTracker::last_good(): latest snapshot that parsed, or Null
    call,         \* the last adapter operation invoked, with its arguments
    result,       \* the value that operation returned
    top_modules_, \* TopModulesCache::top_modules_ of the singleton
    last_write    \* the last call that wrote the cache, and the contents before it

vars == <<has_tracker, current, last_good, call, result, top_modules_, last_write>>

\* the null snapshot pointer
Null == [null |-> TRUE]

\* no operation has been invoked on the present tracker state
NoCall == [op |-> "none"]

\* ---------------------------------------------------------------- bounds
\* longest list of rejected tokens in a snapshot
MaxRejected == 2
\* largest message_limit passed to CreateDiagnostics
MaxLimit == 3
\* largest line number of a request position
MaxLine == 1

\* columns of request positions
Cols == {0, 1}

\* the document the requests are about
DocUri == "file:///a.sv"

\* ---------------------------------------------------------------- text
\* Contents of the buffer: two lines, tokens ab [0,2) cd [3,5) e [6,7).
Contents == "ab\ncd e"

\* Further buffers: an empty one and one that ends with a newline.
EmptyText == ""

NewlineText == "ab\n"

\* A buffer with a macro name and two identifiers of the same text; # stands
\* for the backquote of the define directive, which a string here cannot hold.
HighlightText == "#define a\na;a"

\* Buffers that hold module declarations.  AnsiText declares its ports in the
\* header; NonAnsiText names them in the header and declares them in the body,
\* and its second module has parameters and no ports.
AnsiText == "module adder(input [3:0] a, b,\n output [W-1:0] sum);\nsub_mod u1(a), (b);\nlogic x;\nendmodule\n"

NonAnsiText == "module m(a, b);\ninput a;\noutput b;\nendmodule\nmodule n #(parameter R);\nlocalparam Q = R+1;\nendmodule\n"

\* Modules at the edges of what the port extraction handles: dimensions before
\* the range, a range without a right bound, a declaration without a name, a
\* named port connection, a declaration without an instance, a module without a
\* name.
OddText == "module o(input [2][7:0] p, [1:] q, wire [5:4] s, input);\nendmodule\nmodule p(input c);\nendmodule\nmodule q(.r(), d);\nsub_mod;\nendmodule\nmodule;\nendmodule\n"

ModuleTexts == {AnsiText, NonAnsiText, OddText}

Min(a, b) == IF a < b THEN a ELSE b

\* number of newlines among the first n bytes of text
NewlinesBefore(text, n) ==
    Cardinality({i \in 1..n : SubSeq(text, i, i) = "\n"})

\* offset of the first byte of the line that holds byte offset n
RECURSIVE LineStart(_, _)
LineStart(text, n) ==
    IF n <= 0 THEN 0
    ELSE IF SubSeq(text, n, n) = "\n" THEN n
    ELSE LineStart(text, n - 1)

\* TextStructureView::GetLineColAtOffset: zero-based line and column of a byte
\* offset, offsets beyond the text clamped to its end.
GetLineColAtOffset(text, offset) ==
    LET o == IF offset < 0 THEN 0 ELSE Min(offset, Len(text))
    IN  [line |-> NewlinesBefore(text, o), column |-> o - LineStart(text, o)]

\* TextStructureView::GetRangeForToken: a token is the byte span [begin, end).
GetRangeForToken(text, token) ==
    [start |-> GetLineColAtOffset(text, token.begin),
     end   |-> GetLineColAtOffset(text, token.end)]

\* ---------------------------------------------------------------- inputs
Span(b, e) == [begin |-> b, end |-> e]

\* The two kinds of rejected token the analyzer records: a parse error and a
\* preprocessor warning.
RejectedKinds ==
    { [token_info |-> Span(3, 5), isEOF |-> FALSE, text |-> "cd",
       phase |-> "kParsePhase", severity |-> "kError", explanation |-> ""],
      [token_info |-> Span(7, 7), isEOF |-> TRUE, text |-> "",
       phase |-> "kPreprocessPhase", severity |-> "kWarning",
       explanation |-> "unterminated"] }

RECURSIVE SeqsUpTo(_, _)
SeqsUpTo(S, n) ==
    IF n = 0 THEN {<<>>}
    ELSE LET shorter == SeqsUpTo(S, n - 1)
         IN  shorter \cup {Append(s, x) : s \in shorter, x \in S}

RejectedLists == SeqsUpTo(RejectedKinds, MaxRejected)

ReplacementEdit(b, e, r) == [fragment |-> Span(b, e), replacement |-> r]

\* Lint violations the engine may report on Contents.
ViolationA ==
    [token |-> Span(0, 2), reason |-> "no ab",
     status |-> [severity |-> "kWarning", url |-> "http://r/a",
                 lint_rule_name |-> "rule-a"],
     autofixes |->
        << [description |-> "rename",
            edits |-> << ReplacementEdit(0, 2, "x"), ReplacementEdit(2, 7, "") >>],
           [description |-> "insert",
            edits |-> << ReplacementEdit(1, 1, "y") >>] >>]

ViolationB ==
    [token |-> Span(3, 5), reason |-> "no cd",
     status |-> [severity |-> "kError", url |-> "http://r/b",
                 lint_rule_name |-> "rule-b"],
     autofixes |->
        << [description |-> "drop", edits |-> << ReplacementEdit(3, 6, "") >>] >>]

ViolationC ==
    [token |-> Span(6, 7), reason |-> "no e",
     status |-> [severity |-> "kError", url |-> "http://r/c",
                 lint_rule_name |-> "rule-c"],
     autofixes |-> << >>]

ViolationPool == {ViolationA, ViolationB, ViolationC}

\* ParsedBuffer::parsed_successfully: lexing and parsing ended without a fatal
\* (error-severity) rejected token.
parsed_successfully(snap) ==
    \A i \in 1..Len(snap.rejected) : snap.rejected[i].severity # "kError"

\* The texts of the snapshots without messages.
PlainTexts == {EmptyText, NewlineText, HighlightText}

\* The snapshots the buffer tracker can hold: Contents with any messages, the
\* other texts without.
Snapshots ==
    [uri : {DocUri}, text : {Contents}, rejected : RejectedLists,
     lint_result : SUBSET ViolationPool]
    \cup [uri : {DocUri}, text : PlainTexts \cup ModuleTexts, rejected : {<<>>},
          lint_result : {{}}]

\* verilog::GetSortedViolations: the violations of a lint result ordered by the
\* position of their token.
RECURSIVE SortByToken(_)
SortByToken(S) ==
    IF S = {} THEN <<>>
    ELSE LET first == CHOOSE v \in S : \A w \in S : v.token.begin <= w.token.begin
         IN  <<first>> \o SortByToken(S \ {first})

GetSortedViolations(lint_result) == SortByToken(lint_result)

\* ---------------------------------------------------------------- diagnostics
\* verible::AnalysisPhaseName
AnalysisPhaseName(phase) ==
    CASE phase = "kLexPhase" -> "lexical"
      [] phase = "kPreprocessPhase" -> "preprocessing"
      [] OTHER -> "syntax"

\* verible::ErrorSeverityDescription
ErrorSeverityDescription(severity) ==
    IF severity = "kError" THEN "error" ELSE "warning"

LspRange(range) ==
    [start |-> [line |-> range.start.line, character |-> range.start.column],
     end   |-> [line |-> range.end.line, character |-> range.end.column]]

\* The marker appended to the message of a violation that can be fixed.
fix_msg_inverted(violation) ==
    IF violation.autofixes = <<>> THEN " (fix available)" ELSE ""

fix_msg(violation) ==
    IF violation.autofixes = <<>> THEN "" ELSE " (fix available)"

\* ViolationToDiagnostic: a lint violation as an LSP diagnostic.
ViolationToDiagnostic(v, text) ==
    [range |-> LspRange(GetRangeForToken(text, v.token)),
     severity |-> IF v.status.severity = "kWarning" THEN "Warning" ELSE "Error",
     has_severity |-> TRUE,
     message |-> v.reason \o " " \o v.status.url \o "[" \o v.status.lint_rule_name
                 \o "]" \o fix_msg(v)]

\* The severity of the diagnostic of a rejected token.
RejectedSeverityAlwaysError(severity) == "Error"

RejectedSeverity(severity) ==
    IF severity = "kError" THEN "Error" ELSE "Warning"

\* The callback CreateDiagnostics hands to ExtractLinterTokenErrorDetail, which
\* calls it once with the range, severity, phase and text of the rejected token.
RejectedTokenToDiagnostic(rejected_token, text) ==
    LET m1 == AnalysisPhaseName(rejected_token.phase) \o " "
              \o ErrorSeverityDescription(rejected_token.severity)
        m2 == IF rejected_token.isEOF
              THEN m1 \o " (unexpected EOF)"
              ELSE m1 \o " at \"" \o rejected_token.text \o "\""
        m3 == IF rejected_token.explanation # ""
              THEN m2 \o " " \o rejected_token.explanation
              ELSE m2
    IN  [range |-> LspRange(GetRangeForToken(text, rejected_token.token_info)),
         severity |-> RejectedSeverity(rejected_token.severity),
         has_severity |-> TRUE,
         message |-> m3]

\* The number of messages CreateDiagnostics will emit.
ClampRemainingIgnoringLimit(total, message_limit) == total

ClampRemaining(total, message_limit) ==
    IF message_limit >= 0 /\ total > message_limit THEN message_limit ELSE total

\* The loop over the rejected tokens: stops at the first token for which
\* remaining-- <= 0, the decrement taking place also on that last test.
RECURSIVE EmitRejected(_, _, _, _, _)
EmitRejected(rejected_tokens, text, i, remaining, out) ==
    IF i > Len(rejected_tokens) THEN [out |-> out, remaining |-> remaining]
    ELSE IF remaining <= 0 THEN [out |-> out, remaining |-> remaining - 1]
    ELSE EmitRejected(rejected_tokens, text, i + 1, remaining - 1,
                      Append(out, RejectedTokenToDiagnostic(rejected_tokens[i], text)))

\* The loop over the sorted lint violations, on the same counter.
RECURSIVE EmitViolationsInFront(_, _, _, _, _)
EmitViolationsInFront(lint_violations, text, i, remaining, out) ==
    IF i > Len(lint_violations) \/ remaining <= 0 THEN out
    ELSE EmitViolationsInFront(lint_violations, text, i + 1, remaining - 1,
                               <<ViolationToDiagnostic(lint_violations[i], text)>> \o out)

RECURSIVE EmitViolations(_, _, _, _, _)
EmitViolations(lint_violations, text, i, remaining, out) ==
    IF i > Len(lint_violations) \/ remaining <= 0 THEN out
    ELSE EmitViolations(lint_violations, text, i + 1, remaining - 1,
                        Append(out, ViolationToDiagnostic(lint_violations[i], text)))

\* CreateDiagnostics on a tracker whose current() is cur.
CreateDiagnosticsOnlyParsed(cur, message_limit) ==
    IF cur = Null \/ ~parsed_successfully(cur) THEN <<>>
    ELSE LET lint_violations == GetSortedViolations(cur.lint_result)
             remaining == ClampRemaining(Len(cur.rejected) + Len(lint_violations),
                                         message_limit)
             syntax == EmitRejected(cur.rejected, cur.text, 1, remaining, <<>>)
         IN  EmitViolations(lint_violations, cur.text, 1, syntax.remaining, syntax.out)

CreateDiagnostics(cur, message_limit) ==
    IF cur = Null THEN <<>>
    ELSE LET lint_violations == GetSortedViolations(cur.lint_result)
             remaining == ClampRemaining(Len(cur.rejected) + Len(lint_violations),
                                         message_limit)
             syntax == EmitRejected(cur.rejected, cur.text, 1, remaining, <<>>)
         IN  EmitViolations(lint_violations, cur.text, 1, syntax.remaining, syntax.out)

\* GenerateDiagnosticReport: the items of the report, no limit on their number.
GenerateDiagnosticReport(tracker, cur) ==
    IF ~tracker THEN <<>> ELSE CreateDiagnostics(cur, -1)

\* ---------------------------------------------------------------- code actions
\* Order of LSP positions (lsp-protocol-operators.h).
PosLess(a, b) ==
    IF a.line > b.line THEN FALSE
    ELSE IF a.line < b.line THEN TRUE
    ELSE a.character < b.character

\* rangeOverlap: some part of one range lies inside the other; an empty range
\* overlaps a range it starts with.
rangeOverlap(a, b) ==
    ~(~PosLess(a.start, b.end) \/ ~PosLess(b.start, a.end)) \/ a.start = b.start

\* The range of the TextEdit of one ReplacementEdit.
EditRangeOfStart(edit, text) ==
    LET start == GetLineColAtOffset(text, edit.fragment.begin)
    IN  [start |-> [line |-> start.line, character |-> start.column],
         end   |-> [line |-> start.line, character |-> start.column]]

EditRange(edit, text) ==
    LET start == GetLineColAtOffset(text, edit.fragment.begin)
        end   == GetLineColAtOffset(text, edit.fragment.end)
    IN  [start |-> [line |-> start.line, character |-> start.column],
         end   |-> [line |-> end.line, character |-> end.column]]

\* AutofixToTextEdits: one TextEdit per ReplacementEdit of the fix.
AutofixToTextEdits(fix, text) ==
    [i \in 1..Len(fix.edits) |->
        [range |-> EditRange(fix.edits[i], text),
         newText |-> fix.edits[i].replacement]]

\* Whether the violation of a diagnostic is relevant to the request.
ViolationRelevantAlways(diagnostic, p) == TRUE

ViolationRelevant(diagnostic, p) == rangeOverlap(diagnostic.range, p.range)

\* preferred_fix after an action has been emitted.
NextPreferredKept(preferred_fix) == preferred_fix

NextPreferred(preferred_fix) == FALSE

\* The loop over the autofixes of one violation.
RECURSIVE EmitFixes(_, _, _, _, _, _, _)
EmitFixes(autofixes, i, preferred_fix, diagnostic, cur, p, out) ==
    IF i > Len(autofixes) THEN out
    ELSE EmitFixes(autofixes, i + 1, NextPreferred(preferred_fix), diagnostic, cur, p,
            Append(out,
                [title |-> autofixes[i].description,
                 kind |-> "quickfix",
                 diagnostics |-> <<diagnostic>>,
                 isPreferred |-> preferred_fix,
                 edit |-> [changes |->
                    [u \in {p.textDocument.uri} |->
                        AutofixToTextEdits(autofixes[i], cur.text)]]]))

\* The loop over the sorted violations.
RECURSIVE EmitActions(_, _, _, _, _)
EmitActions(lint_violations, i, cur, p, out) ==
    IF i > Len(lint_violations) THEN out
    ELSE LET violation == lint_violations[i]
             diagnostic == ViolationToDiagnostic(violation, cur.text)
         IN  IF violation.autofixes = <<>> THEN
                 EmitActions(lint_violations, i + 1, cur, p, out)
             ELSE IF ~ViolationRelevant(diagnostic, p) THEN
                 EmitActions(lint_violations, i + 1, cur, p, out)
             ELSE
                 EmitActions(lint_violations, i + 1, cur, p,
                     EmitFixes(violation.autofixes, 1, TRUE, diagnostic, cur, p, out))

GenerateLinterCodeActions(tracker, cur, p) ==
    IF ~tracker THEN <<>>
    ELSE IF cur = Null THEN <<>>
    ELSE LET lint_violations == GetSortedViolations(cur.lint_result)
         IN  IF lint_violations = <<>> THEN <<>>
             ELSE EmitActions(lint_violations, 1, cur, p, <<>>)

\* ---------------------------------------------------------------- syntax tree
\* verible::SyntaxTreeLeaf and verible::SyntaxTreeNode.  A leaf holds a token;
\* an absent child of a node is Null.
Leaf(token_enum, text, b, e) ==
    [kind |-> "leaf", token_enum |-> token_enum, text |-> text, begin |-> b, end |-> e]

Node(tag, children) == [kind |-> "node", tag |-> tag, children |-> children]

\* The concrete syntax trees the parser builds for the module texts.
AnsiTree ==
    Node("kDescriptionList", <<
      Node("kModuleDeclaration", <<
        Node("kModuleHeader", <<
          Leaf("TK_module", "module", 0, 6),
          Leaf("SymbolIdentifier", "adder", 7, 12),
          Null,
          Node("kParenGroup", <<
            Leaf("lparen", "(", 12, 13),
            Node("kPortDeclarationList", <<
              Node("kPortDeclaration", <<
                Leaf("TK_input", "input", 13, 18),
                Null,
                Node("kDataType", <<
                  Node("kPackedDimensions", <<
                    Node("kDeclarationDimensions", <<
                      Node("kDimensionRange", <<
                        Leaf("lbracket", "[", 19, 20),
                        Node("kExpression", <<Leaf("TK_DecNumber", "3", 20, 21)>>),
                        Leaf("colon", ":", 21, 22),
                        Node("kExpression", <<Leaf("TK_DecNumber", "0", 22, 23)>>),
                        Leaf("rbracket", "]", 23, 24)>>)>>)>>)>>),
                Leaf("SymbolIdentifier", "a", 25, 26)>>),
              Leaf("comma", ",", 26, 27),
              Node("kPortDeclaration", <<
                Null,
                Null,
                Null,
                Leaf("SymbolIdentifier", "b", 28, 29)>>),
              Leaf("comma", ",", 29, 30),
              Node("kPortDeclaration", <<
                Leaf("TK_output", "output", 32, 38),
                Null,
                Node("kDataType", <<
                  Node("kPackedDimensions", <<
                    Node("kDeclarationDimensions", <<
                      Node("kDimensionRange", <<
                        Leaf("lbracket", "[", 39, 40),
                        Node("kExpression", <<
                          Node("kBinaryExpression", <<
                            Leaf("SymbolIdentifier", "W", 40, 41),
                            Leaf("minus", "-", 41, 42),
                            Leaf("TK_DecNumber", "1", 42, 43)>>)>>),
                        Leaf("colon", ":", 43, 44),
                        Node("kExpression", <<Leaf("TK_DecNumber", "0", 44, 45)>>),
                        Leaf("rbracket", "]", 45, 46)>>)>>)>>)>>),
                Leaf("SymbolIdentifier", "sum", 47, 50)>>)>>),
            Leaf("rparen", ")", 50, 51)>>),
          Leaf("semicolon", ";", 51, 52)>>),
        Node("kModuleItemList", <<
          Node("kDataDeclaration", <<
            Node("kInstantiationBase", <<
              Node("kInstantiationType", <<
                Node("kUnqualifiedId", <<Leaf("SymbolIdentifier", "sub_mod", 53, 60)>>)>>),
              Node("kGateInstanceRegisterVariableList", <<
                Node("kGateInstance", <<
                  Leaf("SymbolIdentifier", "u1", 61, 63),
                  Node("kParenGroup", <<
                    Leaf("lparen", "(", 63, 64),
                    Leaf("SymbolIdentifier", "a", 64, 65),
                    Leaf("rparen", ")", 65, 66)>>)>>),
                Leaf("comma", ",", 66, 67),
                Node("kGateInstance", <<
                  Null,
                  Node("kParenGroup", <<
                    Leaf("lparen", "(", 68, 69),
                    Leaf("SymbolIdentifier", "b", 69, 70),
                    Leaf("rparen", ")", 70, 71)>>)>>)>>)>>),
            Leaf("semicolon", ";", 71, 72)>>),
          Node("kDataDeclaration", <<
            Node("kInstantiationBase", <<
              Node("kInstantiationType", <<
                Node("kDataTypePrimitive", <<Leaf("TK_logic", "logic", 73, 78)>>)>>),
              Node("kGateInstanceRegisterVariableList", <<
                Node("kGateInstance", <<Leaf("SymbolIdentifier", "x", 79, 80), Null>>)>>)>>),
            Leaf("semicolon", ";", 80, 81)>>)>>),
        Leaf("TK_endmodule", "endmodule", 82, 91)>>)>>)

NonAnsiTree ==
    Node("kDescriptionList", <<
      Node("kModuleDeclaration", <<
        Node("kModuleHeader", <<
          Leaf("TK_module", "module", 0, 6),
          Leaf("SymbolIdentifier", "m", 7, 8),
          Null,
          Node("kParenGroup", <<
            Leaf("lparen", "(", 8, 9),
            Node("kPortDeclarationList", <<
              Node("kPort", <<
                Node("kPortReference", <<Leaf("SymbolIdentifier", "a", 9, 10), Null>>)>>),
              Leaf("comma", ",", 10, 11),
              Node("kPort", <<
                Node("kPortReference", <<Leaf("SymbolIdentifier", "b", 12, 13), Null>>)>>)>>),
            Leaf("rparen", ")", 13, 14)>>),
          Leaf("semicolon", ";", 14, 15)>>),
        Node("kModuleItemList", <<
          Node("kModulePortDeclaration", <<
            Leaf("TK_input", "input", 16, 21),
            Node("kIdentifierUnpackedDimensionsList", <<
              Leaf("SymbolIdentifier", "a", 22, 23)>>),
            Leaf("semicolon", ";", 23, 24)>>),
          Node("kModulePortDeclaration", <<
            Leaf("TK_output", "output", 25, 31),
            Node("kIdentifierUnpackedDimensionsList", <<
              Leaf("SymbolIdentifier", "b", 32, 33)>>),
            Leaf("semicolon", ";", 33, 34)>>)>>),
        Leaf("TK_endmodule", "endmodule", 35, 44)>>),
      Node("kModuleDeclaration", <<
        Node("kModuleHeader", <<
          Leaf("TK_module", "module", 45, 51),
          Leaf("SymbolIdentifier", "n", 52, 53),
          Node("kFormalParameterListDeclaration", <<
            Leaf("hash", "#", 54, 55),
            Node("kParenGroup", <<
              Leaf("lparen", "(", 55, 56),
              Node("kFormalParameterList", <<
                Node("kParamDeclaration", <<
                  Leaf("TK_parameter", "parameter", 56, 65),
                  Node("kParamType", <<Leaf("SymbolIdentifier", "R", 66, 67)>>),
                  Null>>)>>),
              Leaf("rparen", ")", 67, 68)>>)>>),
          Null,
          Leaf("semicolon", ";", 68, 69)>>),
        Node("kModuleItemList", <<
          Node("kParamDeclarationItem", <<
            Node("kParamDeclaration", <<
              Leaf("TK_localparam", "localparam", 70, 80),
              Node("kParamType", <<Leaf("SymbolIdentifier", "Q", 81, 82)>>),
              Node("kTrailingAssign", <<
                Leaf("equals", "=", 83, 84),
                Node("kExpression", <<
                  Node("kBinaryExpression", <<
                    Leaf("SymbolIdentifier", "R", 85, 86),
                    Leaf("plus", "+", 86, 87),
                    Leaf("TK_DecNumber", "1", 87, 88)>>)>>)>>)>>),
            Leaf("semicolon", ";", 88, 89)>>)>>),
        Leaf("TK_endmodule", "endmodule", 90, 99)>>)>>)

OddTree ==
    Node("kDescriptionList", <<
      Node("kModuleDeclaration", <<
        Node("kModuleHeader", <<
          Leaf("TK_module", "module", 0, 6),
          Leaf("SymbolIdentifier", "o", 7, 8),
          Null,
          Node("kParenGroup", <<
            Leaf("lparen", "(", 8, 9),
            Node("kPortDeclarationList", <<
              Node("kPortDeclaration", <<
                Leaf("TK_input", "input", 9, 14),
                Null,
                Node("kDataType", <<
                  Node("kPackedDimensions", <<
                    Node("kDeclarationDimensions", <<
                      Node("kDimensionScalar", <<
                        Leaf("lbracket", "[", 15, 16),
                        Node("kExpression", <<Leaf("TK_DecNumber", "2", 16, 17)>>),
                        Leaf("rbracket", "]", 17, 18)>>),
                      Node("kDimensionRange", <<
                        Leaf("lbracket", "[", 18, 19),
                        Node("kExpression", <<Leaf("TK_DecNumber", "7", 19, 20)>>),
                        Leaf("colon", ":", 20, 21),
                        Node("kExpression", <<Leaf("TK_DecNumber", "0", 21, 22)>>),
                        Leaf("rbracket", "]", 22, 23)>>)>>)>>)>>),
                Leaf("SymbolIdentifier", "p", 24, 25)>>),
              Leaf("comma", ",", 25, 26),
              Node("kPortDeclaration", <<
                Null,
                Null,
                Node("kDataType", <<
                  Node("kPackedDimensions", <<
                    Node("kDeclarationDimensions", <<
                      Node("kDimensionRange", <<
                        Leaf("lbracket", "[", 27, 28),
                        Node("kExpression", <<Leaf("TK_DecNumber", "1", 28, 29)>>),
                        Leaf("colon", ":", 29, 30),
                        Null,
                        Leaf("rbracket", "]", 30, 31)>>)>>)>>)>>),
                Leaf("SymbolIdentifier", "q", 32, 33)>>),
              Leaf("comma", ",", 33, 34),
              Node("kPortDeclaration", <<
                Null,
                Node("kDataType", <<
                  Leaf("TK_wire", "wire", 35, 39),
                  Node("kPackedDimensions", <<
                    Node("kDeclarationDimensions", <<
                      Node("kDimensionRange", <<
                        Leaf("lbracket", "[", 40, 41),
                        Node("kExpression", <<Leaf("TK_DecNumber", "5", 41, 42)>>),
                        Leaf("colon", ":", 42, 43),
                        Node("kExpression", <<Leaf("TK_DecNumber", "4", 43, 44)>>),
                        Leaf("rbracket", "]", 44, 45)>>)>>)>>)>>),
                Null,
                Leaf("SymbolIdentifier", "s", 46, 47)>>),
              Leaf("comma", ",", 47, 48),
              Node("kPortDeclaration", <<
                Leaf("TK_input", "input", 49, 54),
                Null,
                Null,
                Null>>)>>),
            Leaf("rparen", ")", 54, 55)>>),
          Leaf("semicolon", ";", 55, 56)>>),
        Node("kModuleItemList", <<>>),
        Leaf("TK_endmodule", "endmodule", 57, 66)>>),
      Node("kModuleDeclaration", <<
        Node("kModuleHeader", <<
          Leaf("TK_module", "module", 67, 73),
          Leaf("SymbolIdentifier", "p", 74, 75),
          Null,
          Node("kParenGroup", <<
            Leaf("lparen", "(", 75, 76),
            Null,
            Node("kPortDeclaration", <<
              Leaf("TK_input", "input", 76, 81),
              Null,
              Null,
              Leaf("SymbolIdentifier", "c", 82, 83)>>),
            Leaf("rparen", ")", 83, 84)>>),
          Leaf("semicolon", ";", 84, 85)>>),
        Node("kModuleItemList", <<>>),
        Leaf("TK_endmodule", "endmodule", 86, 95)>>),
      Node("kModuleDeclaration", <<
        Node("kModuleHeader", <<
          Leaf("TK_module", "module", 96, 102),
          Leaf("SymbolIdentifier", "q", 103, 104),
          Null,
          Node("kParenGroup", <<
            Leaf("lparen", "(", 104, 105),
            Node("kPortDeclarationList", <<
              Node("kPort", <<
                Null,
                Leaf("dot", ".", 105, 106),
                Leaf("SymbolIdentifier", "r", 106, 107),
                Leaf("lparen", "(", 107, 108),
                Leaf("rparen", ")", 108, 109)>>),
              Leaf("comma", ",", 109, 110),
              Node("kPort", <<
                Node("kPortReference", <<Leaf("SymbolIdentifier", "d", 111, 112), Null>>)>>)>>),
            Leaf("rparen", ")", 112, 113)>>),
          Leaf("semicolon", ";", 113, 114)>>),
        Node("kModuleItemList", <<
          Node("kDataDeclaration", <<
            Node("kInstantiationBase", <<
              Node("kInstantiationType", <<
                Node("kUnqualifiedId", <<Leaf("SymbolIdentifier", "sub_mod", 115, 122)>>)>>),
              Null>>),
            Leaf("semicolon", ";", 122, 123)>>)>>),
        Leaf("TK_endmodule", "endmodule", 124, 133)>>),
      Node("kModuleDeclaration", <<
        Node("kModuleHeader", <<
          Leaf("TK_module", "module", 134, 140),
          Null,
          Null,
          Null,
          Leaf("semicolon", ";", 140, 141)>>),
        Node("kModuleItemList", <<>>),
        Leaf("TK_endmodule", "endmodule", 142, 151)>>)>>)

\* The tree of a text without declarations.
EmptyTree == Node("kDescriptionList", <<>>)

\* The tree the parser builds for a text.
TreeOf(text) ==
    CASE text = AnsiText -> AnsiTree
      [] text = NonAnsiText -> NonAnsiTree
      [] text = OddText -> OddTree
      [] OTHER -> EmptyTree

\* TextStructureView::SyntaxTree of a snapshot: absent when the text did not
\* parse.
SyntaxTree(snap) == IF parsed_successfully(snap) THEN TreeOf(snap.text) ELSE Null

\* The leaves of a subtree from left to right.
RECURSIVE LeavesOf(_), LeavesOfChildren(_, _)
LeavesOf(symbol) ==
    IF symbol = Null THEN <<>>
    ELSE IF symbol.kind = "leaf" THEN <<symbol>>
    ELSE LeavesOfChildren(symbol.children, 1)

LeavesOfChildren(children, i) ==
    IF i > Len(children) THEN <<>>
    ELSE LeavesOf(children[i]) \o LeavesOfChildren(children, i + 1)

\* verible::StringSpanOfSymbol: the text from the first to the last token of a
\* subtree.
StringSpanOfSymbol(symbol, text) ==
    LET leaves == LeavesOf(symbol)
    IN  IF leaves = <<>> THEN ""
        ELSE SubSeq(text, leaves[1].begin + 1, leaves[Len(leaves)].end)

\* verible::SearchSyntaxTree with a tag matcher: the nodes of a subtree that
\* carry the tag, in pre-order.
RECURSIVE SearchSyntaxTree(_, _), SearchChildren(_, _, _)
SearchSyntaxTree(symbol, tag) ==
    IF symbol = Null THEN <<>>
    ELSE IF symbol.kind = "leaf" THEN <<>>
    ELSE (IF symbol.tag = tag THEN <<symbol>> ELSE <<>>)
         \o SearchChildren(symbol.children, 1, tag)

SearchChildren(children, i, tag) ==
    IF i > Len(children) THEN <<>>
    ELSE SearchSyntaxTree(children[i], tag) \o SearchChildren(children, i + 1, tag)

\* verible::GetSubtreeAsSymbol: the child at a zero-based index, Null when the
\* node has no such child.
GetSubtreeAsSymbol(symbol, index) ==
    IF index + 1 \in DOMAIN symbol.children THEN symbol.children[index + 1] ELSE Null

\* ---------------------------------------------------------------- highlights
Token(token_enum, text, b, e) ==
    [token_enum |-> token_enum, text |-> text, begin |-> b, end |-> e]

\* The end-of-file token, which is the last of every token stream.
EOFToken(text) == Token("TK_EOF", "", Len(text), Len(text))

\* TextStructureView::TokenStream: the tokens the lexer finds in a text.
TokenStream(text) ==
    CASE text = Contents ->
            << Token("SymbolIdentifier", "ab", 0, 2),
               Token("SymbolIdentifier", "cd", 3, 5),
               Token("SymbolIdentifier", "e", 6, 7), EOFToken(text) >>
      [] text = NewlineText ->
            << Token("SymbolIdentifier", "ab", 0, 2), EOFToken(text) >>
      [] text = HighlightText ->
            << Token("PP_define", "#define", 0, 7),
               Token("PP_Identifier", "a", 8, 9),
               Token("SymbolIdentifier", "a", 10, 11),
               Token("semicolon", ";", 11, 12),
               Token("SymbolIdentifier", "a", 12, 13), EOFToken(text) >>
      [] text \in ModuleTexts ->
            LET leaves == LeavesOf(TreeOf(text))
            IN  [i \in 1..Len(leaves) |->
                    Token(leaves[i].token_enum, leaves[i].text,
                          leaves[i].begin, leaves[i].end)] \o << EOFToken(text) >>
      [] OTHER -> << EOFToken(text) >>

\* LineColumnRange::PositionInRange: start <= pos < end.
PositionInRange(range, pos) ==
    /\ (range.start.line < pos.line
          \/ (range.start.line = pos.line /\ range.start.column <= pos.column))
    /\ (pos.line < range.end.line
          \/ (pos.line = range.end.line /\ pos.column < range.end.column))

\* TextStructureView::FindTokenAt: the token that covers a position, the
\* end-of-file token if none does.
FindTokenAt(text, pos) ==
    LET stream == TokenStream(text)
        hits == {i \in 1..Len(stream) :
                    PositionInRange(GetRangeForToken(text, stream[i]), pos)}
    IN  IF hits = {} THEN EOFToken(text)
        ELSE stream[CHOOSE i \in hits : \A j \in hits : i <= j]

\* Whether a token of the stream is highlighted with the token at the cursor.
SameTextOnly(tok, cursor_token) == tok.text = cursor_token.text

SameSymbol(tok, cursor_token) ==
    /\ tok.token_enum = cursor_token.token_enum
    /\ tok.text = cursor_token.text

\* The loop over the token stream.
RECURSIVE EmitHighlights(_, _, _, _, _)
EmitHighlights(stream, i, cursor_token, text, out) ==
    IF i > Len(stream) THEN out
    ELSE IF ~SameSymbol(stream[i], cursor_token) THEN
        EmitHighlights(stream, i + 1, cursor_token, text, out)
    ELSE
        EmitHighlights(stream, i + 1, cursor_token, text,
            Append(out, [range |-> LspRange(GetRangeForToken(text, stream[i]))]))

CreateHighlightRanges(tracker, cur, p) ==
    IF ~tracker THEN <<>>
    ELSE IF cur = Null THEN <<>>
    ELSE LET cursor == [line |-> p.position.line, column |-> p.position.character]
             cursor_token == FindTokenAt(cur.text, cursor)
         IN  IF cursor_token.token_enum # "SymbolIdentifier" THEN <<>>
             ELSE EmitHighlights(TokenStream(cur.text), 1, cursor_token, cur.text, <<>>)

\* ---------------------------------------------------------------- formatting
\* verible::Interval<int>::valid
valid(interval) == interval.min < interval.max

\* verilog::formatter::FormatVerilogRange and FormatVerilog: the text the
\* formatter writes for the one-based lines [min, max) of a text, and for all
\* of it.
FormatVerilogRange(text, format_lines) ==
    "formatted[" \o ToString(format_lines.min) \o "," \o ToString(format_lines.max)
    \o "):" \o text

FormatVerilog(text) == "formatted:" \o text

\* TextStructureView::GetRangeForText of the whole contents.
GetRangeForText(text) ==
    [start |-> GetLineColAtOffset(text, 0), end |-> GetLineColAtOffset(text, Len(text))]

\* The snapshot FormatRange formats, Null when it may not format.
FormatSourceWithFallback(tracker, cur, good) ==
    IF ~tracker THEN Null
    ELSE IF cur = Null THEN Null
    ELSE IF ~parsed_successfully(cur) THEN good
    ELSE cur

FormatSource(tracker, cur, good) ==
    IF ~tracker THEN Null
    ELSE IF cur = Null \/ ~parsed_successfully(cur) THEN Null
    ELSE cur

\* The one-based lines to format for a request range.
FormatLinesAlwaysInclude(range) ==
    [min |-> range.start.line + 1, max |-> range.end.line + 1 + 1]

FormatLinesZeroBased(range) ==
    LET last_line_include == IF range.end.character > 0 THEN 1 ELSE 0
    IN  [min |-> range.start.line, max |-> range.end.line + last_line_include]

FormatLines(range) ==
    LET last_line_include == IF range.end.character > 0 THEN 1 ELSE 0
    IN  [min |-> range.start.line + 1,
         max |-> range.end.line + 1 + last_line_include]

\* The range of the edit that replaces the whole file.
FullDocumentRangeToLastLine(text) ==
    LET range == GetRangeForText(text)
    IN  [start |-> [line |-> 0, character |-> 0],
         end   |-> [line |-> range.end.line, character |-> 0]]

FullDocumentRange(text) ==
    LET range == GetRangeForText(text)
    IN  [start |-> [line |-> 0, character |-> 0],
         end   |-> [line |-> range.end.line, character |-> range.end.column]]

\* FormatRange; formatter_ok is whether the formatter reports success.
FormatRange(tracker, cur, good, p, formatter_ok) ==
    LET src == FormatSource(tracker, cur, good)
    IN  IF src = Null THEN <<>>
        ELSE IF p.has_range THEN
            LET format_lines == FormatLines(p.range)
            IN  IF ~valid(format_lines) THEN <<>>
                ELSE IF ~formatter_ok THEN <<>>
                ELSE << [range |->
                            [start |-> [line |-> format_lines.min - 1, character |-> 0],
                             end   |-> [line |-> format_lines.max - 1, character |-> 0]],
                         newText |-> FormatVerilogRange(src.text, format_lines)] >>
        ELSE
            IF ~formatter_ok THEN <<>>
            ELSE << [range |-> FullDocumentRange(src.text),
                     newText |-> FormatVerilog(src.text)] >>

\* ---------------------------------------------------------------- module metadata
\* The accessors of the syntax tree library (verible/verilog/CST): each returns
\* a child at a fixed place of its node, Null when the tree does not have it.
FindAllModuleDeclarations(root) == SearchSyntaxTree(root, "kModuleDeclaration")

FindAllPortDeclarations(root) == SearchSyntaxTree(root, "kPortDeclaration")

FindAllPortReferences(root) == SearchSyntaxTree(root, "kPort")

FindAllPackedDimensions(root) == SearchSyntaxTree(root, "kPackedDimensions")

FindAllDeclarationDimensions(root) == SearchSyntaxTree(root, "kDeclarationDimensions")

FindAllParamDeclarations(root) == SearchSyntaxTree(root, "kParamDeclaration")

FindAllDataDeclarations(root) == SearchSyntaxTree(root, "kDataDeclaration")

FindAllGateInstances(root) == SearchSyntaxTree(root, "kGateInstance")

GetModuleHeader(module_symbol) == GetSubtreeAsSymbol(module_symbol, 0)

GetModuleName(module_symbol) == GetSubtreeAsSymbol(GetModuleHeader(module_symbol), 1)

GetModulePortParenGroup(module_symbol) ==
    GetSubtreeAsSymbol(GetModuleHeader(module_symbol), 3)

GetModulePortDeclarationList(module_symbol) ==
    LET paren_group == GetModulePortParenGroup(module_symbol)
    IN  IF paren_group = Null THEN Null ELSE GetSubtreeAsSymbol(paren_group, 1)

GetModuleItemList(module_symbol) == GetSubtreeAsSymbol(module_symbol, 1)

GetDirectionFromPortDeclaration(port_decl) == GetSubtreeAsSymbol(port_decl, 0)

GetIdentifierFromPortDeclaration(port_decl) == GetSubtreeAsSymbol(port_decl, 3)

GetPortReferenceFromPort(port) == GetSubtreeAsSymbol(port, 0)

GetIdentifierFromPortReference(port_reference) == GetSubtreeAsSymbol(port_reference, 0)

GetDimensionRangeLeftBound(range) == GetSubtreeAsSymbol(range, 1)

GetDimensionRangeRightBound(range) == GetSubtreeAsSymbol(range, 3)

GetParamKeyword(param_decl) == GetSubtreeAsSymbol(param_decl, 0).token_enum

GetParameterNameToken(param_decl) ==
    GetSubtreeAsSymbol(GetSubtreeAsSymbol(param_decl, 1), 0)

GetParamAssignExpression(param_decl) ==
    LET assign == GetSubtreeAsSymbol(param_decl, 2)
    IN  IF assign = Null THEN Null ELSE GetSubtreeAsSymbol(assign, 1)

GetInstantiationTypeOfDataDeclaration(data_decl) ==
    GetSubtreeAsSymbol(GetSubtreeAsSymbol(data_decl, 0), 0)

GetTypeIdentifierFromDataDeclaration(data_decl) ==
    LET inst_type == GetInstantiationTypeOfDataDeclaration(data_decl)
    IN  IF inst_type = Null THEN Null ELSE GetSubtreeAsSymbol(inst_type, 0)

GetInstanceListFromDataDeclaration(data_decl) ==
    GetSubtreeAsSymbol(GetSubtreeAsSymbol(data_decl, 0), 1)

GetModuleInstanceNameTokenInfoFromGateInstance(gate_instance) ==
    GetSubtreeAsSymbol(gate_instance, 0)

\* ExtractExpressionText: the text of a leaf, and for a node the texts of its
\* children one after the other.
RECURSIVE ExtractExpressionText(_, _)
RECURSIVE ExtractChildrenText(_, _, _)
ExtractChildrenText(children, i, text) ==
    IF i > Len(children) THEN ""
    ELSE (IF children[i] # Null THEN ExtractExpressionText(children[i], text) ELSE "")
         \o ExtractChildrenText(children, i + 1, text)

ExtractFirstTokenText(symbol, text) ==
    LET leaves == LeavesOf(symbol)
    IN  IF leaves = <<>> THEN "" ELSE leaves[1].text

ExtractExpressionText(symbol, text) ==
    IF symbol = Null THEN ""
    ELSE IF symbol.kind = "leaf" THEN symbol.text
    ELSE ExtractChildrenText(symbol.children, 1, text)

\* The children of the declaration dimensions under the packed dimensions, in
\* the order the loops of GetPackedDimensionsFromPortDeclaration visit them.
RECURSIVE ChildrenOfDeclarationDimensions(_, _)
ChildrenOfDeclarationDimensions(decl_dims, j) ==
    IF j > Len(decl_dims) THEN <<>>
    ELSE decl_dims[j].children \o ChildrenOfDeclarationDimensions(decl_dims, j + 1)

RECURSIVE ChildrenOfPackedDimensions(_, _)
ChildrenOfPackedDimensions(packed_dims, i) ==
    IF i > Len(packed_dims) THEN <<>>
    ELSE ChildrenOfDeclarationDimensions(
             FindAllDeclarationDimensions(packed_dims[i]), 1)
         \o ChildrenOfPackedDimensions(packed_dims, i + 1)

\* The test a visited child passes to become the width: a range node with
\* both bounds.
IsRangeWithBounds(child) ==
    /\ child # Null
    /\ child.kind = "node"
    /\ child.tag = "kDimensionRange"
    /\ GetDimensionRangeLeftBound(child) # Null
    /\ GetDimensionRangeRightBound(child) # Null

GetPackedDimensionsFromPortDeclaration(port_decl, text) ==
    LET at2 == GetSubtreeAsSymbol(port_decl, 2)
        data_type == IF at2 # Null THEN at2 ELSE GetSubtreeAsSymbol(port_decl, 1)
    IN  IF data_type = Null THEN "1"
        ELSE LET packed_dims == FindAllPackedDimensions(data_type)
                 ranges == SelectSeq(ChildrenOfPackedDimensions(packed_dims, 1),
                                     IsRangeWithBounds)
             IN  IF packed_dims = <<>> THEN "1"
                 ELSE IF ranges = <<>> THEN "1"
                 ELSE LET left_str == ExtractExpressionText(
                              GetDimensionRangeLeftBound(ranges[1]), text)
                          right_str == ExtractExpressionText(
                              GetDimensionRangeRightBound(ranges[1]), text)
                      IN  "[" \o left_str \o ":" \o right_str \o "]"

\* The direction written for a port declaration.
PortDirectionUnknownDefault(direction) ==
    IF direction # Null THEN direction.text ELSE "unknown"

PortDirection(direction) ==
    IF direction # Null THEN direction.text ELSE "input"

\* The loop over port declarations: one port for every declaration with a name.
RECURSIVE EmitPortDeclarations(_, _, _, _)
EmitPortDeclarations(port_decls, i, text, ports) ==
    IF i > Len(port_decls) THEN ports
    ELSE LET port_name == GetIdentifierFromPortDeclaration(port_decls[i])
             port_json ==
                 [name |-> port_name.text,
                  direction |-> PortDirection(
                      GetDirectionFromPortDeclaration(port_decls[i])),
                  width |-> GetPackedDimensionsFromPortDeclaration(port_decls[i], text)]
         IN  IF port_name = Null
             THEN EmitPortDeclarations(port_decls, i + 1, text, ports)
             ELSE EmitPortDeclarations(port_decls, i + 1, text, Append(ports, port_json))

\* The loop over the bare port references of a header.
RECURSIVE EmitPortReferences(_, _, _)
EmitPortReferences(port_refs, i, ports) ==
    IF i > Len(port_refs) THEN ports
    ELSE LET port_ref_node == GetPortReferenceFromPort(port_refs[i])
             port_name == IF port_ref_node = Null THEN Null
                          ELSE GetIdentifierFromPortReference(port_ref_node)
         IN  IF port_name = Null
             THEN EmitPortReferences(port_refs, i + 1, ports)
             ELSE EmitPortReferences(port_refs, i + 1,
                      Append(ports, [name |-> port_name.text,
                                     direction |-> "unknown", width |-> "1"]))

\* Whether the parenthesis group is searched for declarations.
ParenGroupAlwaysSearched(port_paren, ports) == port_paren # Null

ParenGroupSearched(port_paren, ports) == port_paren # Null /\ ports = <<>>

\* The ports of the port declaration list, else those found in the parenthesis
\* group.
DeclaredPorts(module_symbol, text) ==
    LET port_list == GetModulePortDeclarationList(module_symbol)
        from_list == IF port_list # Null
                     THEN EmitPortDeclarations(FindAllPortDeclarations(port_list), 1,
                                               text, <<>>)
                     ELSE <<>>
        port_paren == GetModulePortParenGroup(module_symbol)
    IN  IF ParenGroupSearched(port_paren, from_list)
        THEN EmitPortDeclarations(FindAllPortDeclarations(port_paren), 1, text, from_list)
        ELSE from_list

\* The ports GetModulePorts writes for one module.
ModulePorts(module_symbol, text) ==
    LET port_list == GetModulePortDeclarationList(module_symbol)
        from_list == IF port_list # Null
                     THEN EmitPortDeclarations(FindAllPortDeclarations(port_list), 1,
                                               text, <<>>)
                     ELSE <<>>
        port_paren == GetModulePortParenGroup(module_symbol)
        declared == DeclaredPorts(module_symbol, text)
    IN  IF ParenGroupSearched(port_paren, from_list) /\ declared = <<>>
        THEN EmitPortReferences(FindAllPortReferences(port_paren), 1, declared)
        ELSE declared

RECURSIVE EmitModulePorts(_, _, _, _)
EmitModulePorts(modules, i, text, out) ==
    IF i > Len(modules) THEN out
    ELSE LET module_name_leaf == GetModuleName(modules[i])
         IN  IF module_name_leaf = Null
             THEN EmitModulePorts(modules, i + 1, text, out)
             ELSE EmitModulePorts(modules, i + 1, text,
                      Append(out, [name |-> module_name_leaf.text,
                                   ports |-> ModulePorts(modules[i], text)]))

GetModulePorts(tracker, good) ==
    IF ~tracker THEN <<>>
    ELSE IF good = Null THEN <<>>
    ELSE LET syntax_tree == SyntaxTree(good)
         IN  IF syntax_tree = Null THEN <<>>
             ELSE EmitModulePorts(FindAllModuleDeclarations(syntax_tree), 1,
                                  good.text, <<>>)

\* The loop over the parameter declarations of a module.
RECURSIVE EmitParameters(_, _, _, _)
EmitParameters(param_decls, i, text, out) ==
    IF i > Len(param_decls) THEN out
    ELSE LET param_name_token == GetParameterNameToken(param_decls[i])
             param_expr == GetParamAssignExpression(param_decls[i])
             param_json ==
                 [type |-> IF GetParamKeyword(param_decls[i]) = "TK_localparam"
                           THEN "localparam" ELSE "parameter",
                  name |-> param_name_token.text,
                  value |-> IF param_expr # Null
                            THEN StringSpanOfSymbol(param_expr, text) ELSE "",
                  line |-> GetLineColAtOffset(text, param_name_token.begin).line]
         IN  IF param_name_token = Null
             THEN EmitParameters(param_decls, i + 1, text, out)
             ELSE EmitParameters(param_decls, i + 1, text, Append(out, param_json))

\* The type names that are taken for built-in types.
IsBuiltinTypeNetOnly(module_type_name) == module_type_name \in {"reg", "wire"}

IsBuiltinType(module_type_name) ==
    module_type_name \in {"reg", "wire", "logic", "integer", "real", "time"}

\* The loop over the instances of one data declaration.
RECURSIVE EmitGateInstances(_, _, _, _, _)
EmitGateInstances(gate_instances, i, module_type_name, text, out) ==
    IF i > Len(gate_instances) THEN out
    ELSE LET inst_name_token ==
                 GetModuleInstanceNameTokenInfoFromGateInstance(gate_instances[i])
             inst_json ==
                 IF inst_name_token # Null
                 THEN [moduleName |-> module_type_name,
                       instanceName |-> inst_name_token.text,
                       line |-> GetLineColAtOffset(text, inst_name_token.begin).line]
                 ELSE [moduleName |-> module_type_name, instanceName |-> "", line |-> 0]
         IN  EmitGateInstances(gate_instances, i + 1, module_type_name, text,
                               Append(out, inst_json))

\* The loop over the data declarations of a module body.
RECURSIVE EmitInstantiations(_, _, _, _)
EmitInstantiations(data_decls, i, text, out) ==
    IF i > Len(data_decls) THEN out
    ELSE LET inst_type == GetInstantiationTypeOfDataDeclaration(data_decls[i])
             type_id == GetTypeIdentifierFromDataDeclaration(data_decls[i])
             module_type_name == StringSpanOfSymbol(type_id, text)
             inst_list == GetInstanceListFromDataDeclaration(data_decls[i])
         IN  IF inst_type = Null THEN EmitInstantiations(data_decls, i + 1, text, out)
             ELSE IF type_id = Null THEN EmitInstantiations(data_decls, i + 1, text, out)
             ELSE IF IsBuiltinType(module_type_name)
                  THEN EmitInstantiations(data_decls, i + 1, text, out)
             ELSE IF inst_list = Null
                  THEN EmitInstantiations(data_decls, i + 1, text, out)
             ELSE EmitInstantiations(data_decls, i + 1, text,
                      EmitGateInstances(FindAllGateInstances(inst_list), 1,
                                        module_type_name, text, out))

\* What GetModuleInfo writes for one module.
ModuleInfo(module_symbol, text) ==
    LET module_token == GetModuleName(module_symbol)
        module_start == GetLineColAtOffset(text, module_token.begin)
        leaves == LeavesOf(module_symbol)
        end_offset == leaves[Len(leaves)].end
        module_end == GetLineColAtOffset(text, end_offset)
        module_items == GetModuleItemList(module_symbol)
    IN  [name |-> module_token.text,
         range |-> [start |-> [line |-> module_start.line,
                               character |-> module_start.column],
                    end   |-> [line |-> module_end.line,
                               character |-> module_end.column]],
         ports |-> DeclaredPorts(module_symbol, text),
         parameters |-> EmitParameters(FindAllParamDeclarations(module_symbol), 1,
                                       text, <<>>),
         instantiations |->
             IF module_items # Null
             THEN EmitInstantiations(FindAllDataDeclarations(module_items), 1, text, <<>>)
             ELSE <<>>]

RECURSIVE EmitModuleInfo(_, _, _, _)
EmitModuleInfo(modules, i, text, out) ==
    IF i > Len(modules) THEN out
    ELSE IF GetModuleName(modules[i]) = Null
         THEN EmitModuleInfo(modules, i + 1, text, out)
    ELSE EmitModuleInfo(modules, i + 1, text, Append(out, ModuleInfo(modules[i], text)))

GetModuleInfo(tracker, good) ==
    IF ~tracker THEN <<>>
    ELSE IF good = Null THEN <<>>
    ELSE LET syntax_tree == SyntaxTree(good)
         IN  IF syntax_tree = Null THEN <<>>
             ELSE EmitModuleInfo(FindAllModuleDeclarations(syntax_tree), 1,
                                 good.text, <<>>)

\* ---------------------------------------------------------------- outline
\* verilog::DocumentSymbolFiller: the symbols below the file node that the
\* outline builder makes of a syntax tree, here one for every named module.
\* What the two flags change lies inside the builder.
DocumentSymbolFiller(syntax_tree, text, kate_compatible_tags, include_variables) ==
    LET modules == SelectSeq(FindAllModuleDeclarations(syntax_tree),
                             LAMBDA m : GetModuleName(m) # Null)
    IN  [i \in 1..Len(modules) |->
            [name |-> GetModuleName(modules[i]).text,
             range |-> LspRange(GetRangeForToken(text, GetModuleName(modules[i])))]]

\* What a caller sees when a null pointer is dereferenced.
Crashed == << [error |-> "null pointer dereferenced"] >>

\* CreateDocumentSymbolOutline: the set of results the call can have.  The
\* syntax tree is dereferenced without a test, so with a snapshot that has none
\* the behaviour is undefined: the call may crash or return anything it made
\* until then.
CreateDocumentSymbolOutlineSharedToplevel(tracker, good, kate_compatible_tags, include_variables) ==
    IF ~tracker THEN {<<>>}
    ELSE IF good = Null THEN {<<>>}
    ELSE IF SyntaxTree(good) = Null THEN {Crashed, <<>>}
    ELSE LET children == DocumentSymbolFiller(SyntaxTree(good), good.text,
                                              kate_compatible_tags, include_variables)
         IN  {children, children \o children}

CreateDocumentSymbolOutlineUnguarded(tracker, good, kate_compatible_tags, include_variables) ==
    IF ~tracker THEN {<<>>}
    ELSE IF good = Null THEN {Crashed, <<>>}
    ELSE IF SyntaxTree(good) = Null THEN {Crashed, <<>>}
    ELSE {DocumentSymbolFiller(SyntaxTree(good), good.text, kate_compatible_tags,
                               include_variables)}

CreateDocumentSymbolOutline(tracker, good, kate_compatible_tags, include_variables) ==
    IF ~tracker THEN {<<>>}
    ELSE IF good = Null THEN {<<>>}
    ELSE IF SyntaxTree(good) = Null THEN {Crashed, <<>>}
    ELSE {DocumentSymbolFiller(SyntaxTree(good), good.text, kate_compatible_tags,
                               include_variables)}

\* ---------------------------------------------------------------- requests
Positions == [line : 0..MaxLine, character : Cols]

Ranges == [start : Positions, end : Positions]

CodeActionParams == [textDocument : [uri : {DocUri}], range : Ranges]

DocumentHighlightParams == [textDocument : [uri : {DocUri}], position : Positions]

\* A formatting request without a range carries a default-constructed one.
DocumentFormattingParams ==
    [has_range : {TRUE}, range : Ranges]
    \cup { [has_range |-> FALSE,
            range |-> [start |-> [line |-> 0, character |-> 0],
                       end   |-> [line |-> 0, character |-> 0]]] }

\* ---------------------------------------------------------------- behaviour
Init ==
    /\ has_tracker = FALSE
    /\ current = Null
    /\ last_good = Null
    /\ call = NoCall
    /\ result = <<>>
    /\ top_modules_ = {}
    /\ last_write = [op |-> "none"]

\* The editor opens the document: a tracker is created for it.
OpenTracker ==
    /\ call = NoCall
    /\ ~has_tracker
    /\ has_tracker' = TRUE
    /\ UNCHANGED <<current, last_good>>
    /\ call' = NoCall
    /\ result' = <<>>
    /\ UNCHANGED <<top_modules_, last_write>>

\* BufferTracker::Update: a new version of the text is parsed and linted.
Update(snap) ==
    /\ call = NoCall
    /\ has_tracker
    /\ current' = snap
    /\ last_good' = IF parsed_successfully(snap) THEN snap ELSE last_good
    /\ UNCHANGED has_tracker
    /\ call' = NoCall
    /\ result' = <<>>
    /\ UNCHANGED <<top_modules_, last_write>>

\* The editor closes the document: its tracker is removed.
CloseTracker ==
    /\ call = NoCall
    /\ has_tracker
    /\ has_tracker' = FALSE
    /\ current' = Null
    /\ last_good' = Null
    /\ call' = NoCall
    /\ result' = <<>>
    /\ UNCHANGED <<top_modules_, last_write>>

CallCreateDiagnostics(message_limit) ==
    /\ call = NoCall
    /\ has_tracker
    /\ call' = [op |-> "CreateDiagnostics", message_limit |-> message_limit]
    /\ result' = CreateDiagnostics(current, message_limit)
    /\ UNCHANGED <<has_tracker, current, last_good>>
    /\ UNCHANGED <<top_modules_, last_write>>

CallGenerateDiagnosticReport ==
    /\ call = NoCall
    /\ call' = [op |-> "GenerateDiagnosticReport"]
    /\ result' = GenerateDiagnosticReport(has_tracker, current)
    /\ UNCHANGED <<has_tracker, current, last_good>>
    /\ UNCHANGED <<top_modules_, last_write>>

CallGenerateLinterCodeActions(p) ==
    /\ call = NoCall
    /\ call' = [op |-> "GenerateLinterCodeActions", p |-> p]
    /\ result' = GenerateLinterCodeActions(has_tracker, current, p)
    /\ UNCHANGED <<has_tracker, current, last_good>>
    /\ UNCHANGED <<top_modules_, last_write>>

CallFormatRange(p, formatter_ok) ==
    /\ call = NoCall
    /\ call' = [op |-> "FormatRange", p |-> p, formatter_ok |-> formatter_ok]
    /\ result' = FormatRange(has_tracker, current, last_good, p, formatter_ok)
    /\ UNCHANGED <<has_tracker, current, last_good>>
    /\ UNCHANGED <<top_modules_, last_write>>

CallCreateHighlightRanges(p) ==
    /\ call = NoCall
    /\ call' = [op |-> "CreateHighlightRanges", p |-> p]
    /\ result' = CreateHighlightRanges(has_tracker, current, p)
    /\ UNCHANGED <<has_tracker, current, last_good>>
    /\ UNCHANGED <<top_modules_, last_write>>

CallCreateDocumentSymbolOutline(kate_compatible_tags, include_variables) ==
    /\ call = NoCall
    /\ call' = [op |-> "CreateDocumentSymbolOutline",
                kate_compatible_tags |-> kate_compatible_tags,
                include_variables |-> include_variables]
    /\ result' \in CreateDocumentSymbolOutline(has_tracker, last_good,
                                               kate_compatible_tags, include_variables)
    /\ UNCHANGED <<has_tracker, current, last_good>>
    /\ UNCHANGED <<top_modules_, last_write>>

CallGetModulePorts ==
    /\ call = NoCall
    /\ call' = [op |-> "GetModulePorts", uri |-> DocUri]
    /\ result' = GetModulePorts(has_tracker, last_good)
    /\ UNCHANGED <<has_tracker, current, last_good>>
    /\ UNCHANGED <<top_modules_, last_write>>

CallGetModuleInfo ==
    /\ call = NoCall
    /\ call' = [op |-> "GetModuleInfo", uri |-> DocUri]
    /\ result' = GetModuleInfo(has_tracker, last_good)
    /\ UNCHANGED <<has_tracker, current, last_good>>
    /\ UNCHANGED <<top_modules_, last_write>>

\* The response of the pending request is sent; requests are served one at a
\* time.
Return ==
    /\ call # NoCall
    /\ call' = NoCall
    /\ result' = <<>>
    /\ UNCHANGED <<has_tracker, current, last_good>>
    /\ UNCHANGED <<top_modules_, last_write>>

Next ==
    \/ OpenTracker
    \/ \E snap \in Snapshots : Update(snap)
    \/ CloseTracker
    \/ \E message_limit \in -1..MaxLimit : CallCreateDiagnostics(message_limit)
    \/ CallGenerateDiagnosticReport
    \/ \E p \in CodeActionParams : CallGenerateLinterCodeActions(p)
    \/ \E p \in DocumentFormattingParams, formatter_ok \in BOOLEAN :
          CallFormatRange(p, formatter_ok)
    \/ \E p \in DocumentHighlightParams : CallCreateHighlightRanges(p)
    \/ \E kate_compatible_tags \in BOOLEAN, include_variables \in BOOLEAN :
          CallCreateDocumentSymbolOutline(kate_compatible_tags, include_variables)
    \/ CallGetModulePorts
    \/ CallGetModuleInfo
    \/ Return

Spec == Init /\ [][Next]_vars

\* The results the operation of a call can have on the present tracker.
Invoke(c) ==
    CASE c.op = "CreateDiagnostics" -> {CreateDiagnostics(current, c.message_limit)}
      [] c.op = "GenerateDiagnosticReport" ->
            {GenerateDiagnosticReport(has_tracker, current)}
      [] c.op = "GenerateLinterCodeActions" ->
            {GenerateLinterCodeActions(has_tracker, current, c.p)}
      [] c.op = "FormatRange" ->
            {FormatRange(has_tracker, current, last_good, c.p, c.formatter_ok)}
      [] c.op = "CreateHighlightRanges" ->
            {CreateHighlightRanges(has_tracker, current, c.p)}
      [] c.op = "CreateDocumentSymbolOutline" ->
            CreateDocumentSymbolOutline(has_tracker, last_good, c.kate_compatible_tags,
                                        c.include_variables)
      [] c.op = "GetModulePorts" -> {GetModulePorts(has_tracker, last_good)}
      [] c.op = "GetModuleInfo" -> {GetModuleInfo(has_tracker, last_good)}

\* The caller invokes the operation it has just invoked once more, with the
\* same arguments and before the tracker is updated.
Repeat ==
    /\ call # NoCall
    /\ call.op # "again"
    /\ call' = [op |-> "again", first |-> call, first_result |-> result]
    /\ result' \in Invoke(call)
    /\ UNCHANGED <<has_tracker, current, last_good>>
    /\ UNCHANGED <<top_modules_, last_write>>

NextRepeat == Next \/ Repeat

SpecRepeat == Init /\ [][NextRepeat]_vars

\* ---------------------------------------------------------------- top modules cache
\* most module names in one call of SetTopModules
MaxModules == 3

\* the module names the language server passes
ModuleNames == {"top", "sub", "adder"}

\* std::set::clear
clearNothing(top_modules) == top_modules

clear(top_modules) == {}

\* The loop of SetTopModules: every name of the list is inserted into the set.
RECURSIVE InsertAll(_, _, _)
InsertAll(top_modules, modules, i) ==
    IF i > Len(modules) THEN top_modules
    ELSE InsertAll(top_modules \cup {modules[i]}, modules, i + 1)

\* TopModulesCache::SetTopModules
SetTopModules(modules) ==
    /\ top_modules_' = InsertAll(clear(top_modules_), modules, 1)
    /\ last_write' = [op |-> "SetTopModules", modules |-> modules,
                      before |-> top_modules_]
    /\ call' = NoCall
    /\ result' = <<>>
    /\ UNCHANGED <<has_tracker, current, last_good>>

\* TopModulesCache::Clear
Clear ==
    /\ top_modules_' = clear(top_modules_)
    /\ last_write' = [op |-> "Clear", before |-> top_modules_]
    /\ call' = NoCall
    /\ result' = <<>>
    /\ UNCHANGED <<has_tracker, current, last_good>>

\* TopModulesCache::GetTopModules
CallGetTopModules ==
    /\ call' = [op |-> "GetTopModules"]
    /\ result' = top_modules_
    /\ UNCHANGED <<has_tracker, current, last_good, top_modules_, last_write>>

\* TopModulesCache::HasTopModules
CallHasTopModules ==
    /\ call' = [op |-> "HasTopModules"]
    /\ result' = (top_modules_ # {})
    /\ UNCHANGED <<has_tracker, current, last_good, top_modules_, last_write>>

NextCache ==
    \/ \E modules \in SeqsUpTo(ModuleNames, MaxModules) : SetTopModules(modules)
    \/ Clear
    \/ CallGetTopModules
    \/ CallHasTopModules

\* The calls on the cache of one process, one after the other.
SpecCache == Init /\ [][NextCache]_vars

\* ================================================================ properties
\* The diagnostics of the rejected tokens of a snapshot, in parser order.
SyntaxDiagnostics(snap) ==
    [i \in 1..Len(snap.rejected) |-> RejectedTokenToDiagnostic(snap.rejected[i], snap.text)]

\* The diagnostics of the lint violations of a snapshot, in sorted order.
LintDiagnostics(snap) ==
    LET sorted == GetSortedViolations(snap.lint_result)
    IN  [i \in 1..Len(sorted) |-> ViolationToDiagnostic(sorted[i], snap.text)]

TotalMessages(snap) == Len(snap.rejected) + Cardinality(snap.lint_result)

DiagnosticsCalled == call.op = "CreateDiagnostics" /\ current # Null

\* C1: with S rejected tokens and V lint violations, CreateDiagnostics returns
\* exactly min(S+V, limit) diagnostics (so at most limit) for a limit >= 0, and
\* exactly S+V for a negative limit, which is what GenerateDiagnosticReport
\* passes.
C1_DiagnosticCount ==
    /\ DiagnosticsCalled =>
          IF call.message_limit >= 0
          THEN /\ Len(result) <= call.message_limit
               /\ Len(result) = Min(TotalMessages(current), call.message_limit)
          ELSE Len(result) = TotalMessages(current)
    /\ (call.op = "GenerateDiagnosticReport" /\ has_tracker /\ current # Null) =>
          Len(result) = TotalMessages(current)

\* A limit that cuts the list: more messages than the limit allows.
C1_Witness ==
    /\ DiagnosticsCalled
    /\ call.message_limit >= 1
    /\ TotalMessages(current) > call.message_limit
    /\ Len(current.rejected) >= 1
    /\ Len(result) = call.message_limit

\* C2: the list CreateDiagnostics returns is a prefix of the syntax-error
\* diagnostics in parser order followed by the lint diagnostics in sorted
\* order: no lint diagnostic is kept while a syntax-error diagnostic is dropped.
C2_SyntaxErrorsFirst ==
    DiagnosticsCalled =>
        LET all == SyntaxDiagnostics(current) \o LintDiagnostics(current)
        IN  /\ Len(result) <= Len(all)
            /\ result = SubSeq(all, 1, Len(result))
            /\ Len(result) > Len(current.rejected)
                  => SubSeq(result, 1, Len(current.rejected)) = SyntaxDiagnostics(current)

\* Truncation in the middle of the lint part, behind two syntax errors.
C2_Witness ==
    /\ DiagnosticsCalled
    /\ Len(current.rejected) = 2
    /\ Cardinality(current.lint_result) >= 2
    /\ Len(result) = 3

CodeActionsCalled ==
    call.op = "GenerateLinterCodeActions" /\ has_tracker /\ current # Null

\* The positions of the result whose action belongs to violation v.
ActionsOf(v) ==
    {i \in 1..Len(result) :
        result[i].diagnostics = <<ViolationToDiagnostic(v, current.text)>>}

\* Whether violation v lies in the range of the request.
InRequestRange(v) ==
    rangeOverlap(LspRange(GetRangeForToken(current.text, v.token)), call.p.range)

\* C3: a violation with N >= 1 autofixes yields exactly N actions when its
\* diagnostic range overlaps the request range and none when it does not; a
\* violation without autofixes yields none.
C3_ActionsPerViolation ==
    CodeActionsCalled =>
        \A v \in current.lint_result :
            Cardinality(ActionsOf(v)) =
                IF v.autofixes # <<>> /\ InRequestRange(v) THEN Len(v.autofixes) ELSE 0

\* A request on line 0 alone: the violation on line 0 gets its two actions, the
\* fixable violation on line 1 gets none.
C3_Witness ==
    /\ CodeActionsCalled
    /\ current.lint_result = ViolationPool
    /\ call.p.range.start.line = 0 /\ call.p.range.end.line = 0
    /\ Cardinality(ActionsOf(ViolationA)) = 2
    /\ ~InRequestRange(ViolationB)
    /\ ActionsOf(ViolationB) = {}

\* The violations whose actions are reported, in violation order.
Surviving ==
    SelectSeq(GetSortedViolations(current.lint_result),
              LAMBDA v : v.autofixes # <<>> /\ InRequestRange(v))

RECURSIVE BlockStart(_, _)
BlockStart(surv, k) ==
    IF k <= 1 THEN 0 ELSE BlockStart(surv, k - 1) + Len(surv[k - 1].autofixes)

\* C4: the result is the concatenation, in violation order, of one block per
\* surviving violation with its actions in autofix order; isPreferred is true
\* on the first action of a block only, so there are as many preferred actions
\* as surviving violations.
C4_BlocksAndPreferred ==
    CodeActionsCalled =>
        LET surv == Surviving
        IN  /\ Len(result) = BlockStart(surv, Len(surv) + 1)
            /\ \A k \in 1..Len(surv) : \A j \in 1..Len(surv[k].autofixes) :
                  LET action == result[BlockStart(surv, k) + j]
                  IN  /\ action.diagnostics = <<ViolationToDiagnostic(surv[k], current.text)>>
                      /\ action.title = surv[k].autofixes[j].description
                      /\ action.isPreferred = (j = 1)
            /\ Cardinality({i \in 1..Len(result) : result[i].isPreferred}) = Len(surv)

\* Two surviving violations, the first with two autofixes.
C4_Witness ==
    /\ CodeActionsCalled
    /\ Len(Surviving) = 2
    /\ Len(result) = 3
    /\ result[2].isPreferred = FALSE
    /\ result[3].isPreferred = TRUE

\* The line and column of a byte offset of Contents, counted on the text
\* itself: the newlines before the offset and the bytes behind the last one.
LineColOf(text, offset) ==
    LET newlines == {k \in 1..offset : SubSeq(text, k, k) = "\n"}
        last == IF newlines = {} THEN 0
                ELSE CHOOSE k \in newlines : \A m \in newlines : m <= k
    IN  [line |-> Cardinality(newlines), character |-> offset - last]

\* C5: the edit of every action has exactly one key, the URI of the request,
\* and under it one TextEdit per ReplacementEdit of the autofix, in order, with
\* the replacement as newText and the line/column of the begin and end of the
\* edit's own fragment as range.
C5_EditsOfAction ==
    CodeActionsCalled =>
        LET surv == Surviving
        IN  \A k \in 1..Len(surv) : \A j \in 1..Len(surv[k].autofixes) :
              LET action == result[BlockStart(surv, k) + j]
                  fix == surv[k].autofixes[j]
              IN  /\ DOMAIN action.edit.changes = {call.p.textDocument.uri}
                  /\ LET edits == action.edit.changes[call.p.textDocument.uri]
                     IN  /\ Len(edits) = Len(fix.edits)
                         /\ \A e \in 1..Len(fix.edits) :
                              /\ edits[e].newText = fix.edits[e].replacement
                              /\ edits[e].range.start =
                                    LineColOf(current.text, fix.edits[e].fragment.begin)
                              /\ edits[e].range.end =
                                    LineColOf(current.text, fix.edits[e].fragment.end)

\* An action whose second edit spans two lines, beyond the flagged token.
C5_Witness ==
    /\ CodeActionsCalled
    /\ Len(result) >= 1
    /\ result[1].title = "rename"
    /\ Len(result[1].edit.changes[DocUri]) = 2
    /\ result[1].edit.changes[DocUri][2].range
          = [start |-> [line |-> 0, character |-> 2], end |-> [line |-> 1, character |-> 4]]
    /\ result[1].edit.changes[DocUri][2].range # result[1].diagnostics[1].range

\* C6 as stated: CreateDiagnostics returns an empty list when there is no
\* snapshot and also when the snapshot did not parse.
C6_EmptyWhenUnparsed ==
    (call.op = "CreateDiagnostics"
        /\ (current = Null \/ ~parsed_successfully(current)))
    => result = <<>>

\* C6: CreateDiagnostics returns an empty list when the tracker has no current
\* snapshot; for a current snapshot that did not parse it reports that
\* snapshot's messages, its syntax errors first, so the list is non-empty
\* unless the limit is 0.
C6_EmptyOnlyWithoutSnapshot ==
    call.op = "CreateDiagnostics" =>
        /\ current = Null => result = <<>>
        /\ (current # Null /\ ~parsed_successfully(current) /\ call.message_limit # 0)
              => /\ result # <<>>
                 /\ result[1] = SyntaxDiagnostics(current)[1]

\* CreateDiagnostics on a tracker that was never updated.
C6_Witness ==
    /\ call.op = "CreateDiagnostics"
    /\ has_tracker
    /\ current = Null
    /\ call.message_limit = -1
    /\ result = <<>>

\* The positions of the result of CreateDiagnostics that come from rejected
\* tokens.
SyntaxPositions == 1..Min(Len(result), Len(current.rejected))

\* C7 as stated: every diagnostic of a rejected token has severity error,
\* whatever severity the parser attached to the token.
C7_SyntaxAlwaysError ==
    DiagnosticsCalled => \A i \in SyntaxPositions : result[i].severity = "Error"

\* C7: the diagnostic of a rejected token has severity error exactly when the
\* parser attached severity error to the token, and warning otherwise; a lint
\* diagnostic has severity warning exactly when its rule's severity is warning.
C7_SeverityFollowsSource ==
    DiagnosticsCalled =>
        /\ \A i \in SyntaxPositions :
              result[i].severity =
                 IF current.rejected[i].severity = "kError" THEN "Error" ELSE "Warning"
        /\ \A i \in 1..Len(result) : i > Len(current.rejected) =>
              LET v == GetSortedViolations(current.lint_result)[i - Len(current.rejected)]
              IN  result[i].severity =
                     IF v.status.severity = "kWarning" THEN "Warning" ELSE "Error"

\* A rejected token of severity warning, reported next to one of severity error.
C7_Witness ==
    /\ DiagnosticsCalled
    /\ Len(current.rejected) >= 2
    /\ Len(result) >= 2
    /\ current.rejected[1].severity = "kWarning"
    /\ current.rejected[2].severity = "kError"
    /\ result[1].severity = "Warning"
    /\ result[2].severity = "Error"

FixMarker == " (fix available)"

\* Whether a message ends with the marker.
HasFixMarker(message) ==
    /\ Len(message) >= Len(FixMarker)
    /\ SubSeq(message, Len(message) - Len(FixMarker) + 1, Len(message)) = FixMarker

\* The message of a violation without the marker.
PlainMessage(v) ==
    v.reason \o " " \o v.status.url \o "[" \o v.status.lint_rule_name \o "]"

\* C8: the message of a lint diagnostic is reason, a blank, the rule's URL and
\* the rule's name in brackets, followed by the marker exactly when the
\* violation has an autofix; and the violations GenerateLinterCodeActions
\* reports actions for are those in range whose diagnostic carries the marker.
C8_MessageAndMarker ==
    /\ DiagnosticsCalled =>
          \A i \in 1..Len(result) : i > Len(current.rejected) =>
              LET v == GetSortedViolations(current.lint_result)[i - Len(current.rejected)]
              IN  /\ result[i].message =
                        IF v.autofixes # <<>> THEN PlainMessage(v) \o FixMarker
                        ELSE PlainMessage(v)
                  /\ HasFixMarker(result[i].message) <=> (v.autofixes # <<>>)
    /\ CodeActionsCalled =>
          /\ \A i \in 1..Len(result) :
                HasFixMarker(result[i].diagnostics[1].message)
          /\ \A v \in current.lint_result :
                LET message == ViolationToDiagnostic(v, current.text).message
                IN  /\ HasFixMarker(message) <=> (v.autofixes # <<>>)
                    /\ (HasFixMarker(message) /\ InRequestRange(v)) => ActionsOf(v) # {}
                    /\ ~HasFixMarker(message) => ActionsOf(v) = {}

\* A list with a marked and an unmarked lint diagnostic.
C8_Witness ==
    /\ DiagnosticsCalled
    /\ current.rejected = <<>>
    /\ current.lint_result = {ViolationB, ViolationC}
    /\ Len(result) = 2
    /\ result[1].message = "no cd http://r/b[rule-b] (fix available)"
    /\ result[2].message = "no e http://r/c[rule-c]"

FormatCalled == call.op = "FormatRange"

\* C9: FormatRange returns no edits, with and without a range, when there is
\* no tracker, no current snapshot, or the current snapshot did not parse, also
\* when an older snapshot that parsed is at hand.
C9_NoFormatUnlessParsed ==
    (FormatCalled
        /\ (~has_tracker \/ current = Null \/ ~parsed_successfully(current)))
    => result = <<>>

\* A request on a full valid range, the formatter willing, while the current
\* snapshot did not parse and an older one did.
C9_Witness ==
    /\ FormatCalled
    /\ has_tracker /\ current # Null /\ ~parsed_successfully(current)
    /\ last_good # Null
    /\ call.formatter_ok
    /\ call.p.has_range
    /\ call.p.range.start.line < call.p.range.end.line
    /\ result = <<>>

FormatSucceeds ==
    /\ FormatCalled
    /\ has_tracker /\ current # Null /\ parsed_successfully(current)
    /\ call.formatter_ok

\* C11: with a range whose lines are accepted (sl < el+inc, inc = 1 exactly
\* when the end column is > 0) and the formatter succeeding, FormatRange
\* returns one TextEdit from (sl, 0) to (el+inc, 0) whose newText is the
\* formatter's output for the one-based lines [sl+1, el+1+inc); the start
\* column has no part in it.
C11_RangeEdit ==
    (FormatSucceeds /\ call.p.has_range) =>
        LET sl == call.p.range.start.line
            el == call.p.range.end.line
            inc == IF call.p.range.end.character > 0 THEN 1 ELSE 0
        IN  sl < el + inc =>
              result = << [range |-> [start |-> [line |-> sl, character |-> 0],
                                     end   |-> [line |-> el + inc, character |-> 0]],
                           newText |-> FormatVerilogRange(current.text,
                                          [min |-> sl + 1, max |-> el + 1 + inc])] >>

\* A request from the middle of line 0 to the middle of line 1: lines 1 and 2
\* are formatted and the edit ends at line 2, column 0.
C11_Witness ==
    /\ FormatSucceeds
    /\ call.p.has_range
    /\ call.p.range.start = [line |-> 0, character |-> 1]
    /\ call.p.range.end = [line |-> 1, character |-> 1]
    /\ Len(result) = 1
    /\ result[1].range.start = [line |-> 0, character |-> 0]
    /\ result[1].range.end = [line |-> 2, character |-> 0]

\* The byte offset of a line/column position of a text, -1 if the text has no
\* such position.
OffsetOf(text, pos) ==
    LET at == {o \in 0..Len(text) : LineColOf(text, o) = pos}
    IN  IF at = {} THEN -1 ELSE CHOOSE o \in at : TRUE

\* The text after a TextEdit has been applied to it.
ApplyEdit(text, edit) ==
    SubSeq(text, 1, OffsetOf(text, edit.range.start))
    \o edit.newText
    \o SubSeq(text, OffsetOf(text, edit.range.end) + 1, Len(text))

\* C12: without a range, a successful FormatRange returns one TextEdit from
\* (0,0) to the line/column of the end of the text, so that applying it to the
\* text gives the formatter's output verbatim, also for an empty text and for
\* a text without a newline at its end; a failing formatter gives no edit.
C12_FullDocumentRoundTrip ==
    (FormatCalled /\ ~call.p.has_range
        /\ has_tracker /\ current # Null /\ parsed_successfully(current)) =>
        IF call.formatter_ok
        THEN /\ Len(result) = 1
             /\ result[1].range.start = [line |-> 0, character |-> 0]
             /\ result[1].range.end = LineColOf(current.text, Len(current.text))
             /\ OffsetOf(current.text, result[1].range.end) = Len(current.text)
             /\ ApplyEdit(current.text, result[1]) = FormatVerilog(current.text)
        ELSE result = <<>>

\* The text without a final newline: the edit ends in the middle of line 1.
C12_Witness ==
    /\ FormatSucceeds
    /\ ~call.p.has_range
    /\ current.text = Contents
    /\ Len(result) = 1
    /\ result[1].range.end = [line |-> 1, character |-> 4]
    /\ ApplyEdit(current.text, result[1]) = "formatted:ab\ncd e"

HighlightsCalled ==
    call.op = "CreateHighlightRanges" /\ has_tracker /\ current # Null

\* The positions in the token stream of the tokens that hold the byte the
\* cursor is on.
TokensAtCursor ==
    LET o == OffsetOf(current.text, call.p.position)
        stream == TokenStream(current.text)
    IN  {i \in 1..Len(stream) : stream[i].begin <= o /\ o < stream[i].end}

\* The line/column range of a token of the current text.
RangeOfToken(tok) ==
    [range |-> [start |-> LineColOf(current.text, tok.begin),
                end   |-> LineColOf(current.text, tok.end)]]

\* C13: CreateHighlightRanges returns nothing when the token under the cursor
\* is not an identifier; otherwise it returns, in token-stream order, one range
\* for every token of the same class and the same text, whatever its scope,
\* the one under the cursor among them, so the result is not empty.
C13_Highlights ==
    HighlightsCalled =>
        LET stream == TokenStream(current.text)
            at == TokensAtCursor
        IN  IF at = {} \/ \A i \in at : stream[i].token_enum # "SymbolIdentifier"
            THEN result = <<>>
            ELSE LET cursor_token == stream[CHOOSE i \in at : TRUE]
                     same == SelectSeq(stream,
                                LAMBDA t : /\ t.token_enum = cursor_token.token_enum
                                           /\ t.text = cursor_token.text)
                 IN  /\ result = [k \in 1..Len(same) |-> RangeOfToken(same[k])]
                     /\ result # <<>>
                     /\ \E k \in 1..Len(result) : result[k] = RangeOfToken(cursor_token)

\* The cursor on the first identifier a of line 1: both identifiers a are
\* highlighted, the macro name a of line 0 is not.
C13_Witness ==
    /\ HighlightsCalled
    /\ current.text = HighlightText
    /\ call.p.position = [line |-> 1, character |-> 0]
    /\ Len(result) = 2
    /\ result[1].range.start = [line |-> 1, character |-> 0]
    /\ result[2].range.start = [line |-> 1, character |-> 2]

\* ---------------------------------------------------------------- module ports
\* GetModulePorts has answered for a snapshot that parsed.
ModulePortsCalled == call.op = "GetModulePorts" /\ has_tracker /\ last_good # Null

HasModuleName(module_symbol) == GetModuleName(module_symbol) # Null

\* The module declarations of the last good text that have a name.
NamedModules == SelectSeq(FindAllModuleDeclarations(TreeOf(last_good.text)), HasModuleName)

HasPortName(port_decl) == GetIdentifierFromPortDeclaration(port_decl) # Null

\* (a) the named declarations of the port declaration list of a module
ListDeclarations(module_symbol) ==
    LET port_list == GetModulePortDeclarationList(module_symbol)
    IN  IF port_list = Null THEN <<>>
        ELSE SelectSeq(FindAllPortDeclarations(port_list), HasPortName)

\* (b) the named declarations anywhere in the parenthesis group
ParenDeclarations(module_symbol) ==
    LET port_paren == GetModulePortParenGroup(module_symbol)
    IN  IF port_paren = Null THEN <<>>
        ELSE SelectSeq(FindAllPortDeclarations(port_paren), HasPortName)

HasReferenceName(port) ==
    /\ GetPortReferenceFromPort(port) # Null
    /\ GetIdentifierFromPortReference(GetPortReferenceFromPort(port)) # Null

\* (c) the bare port references of the parenthesis group that have a name
ParenReferences(module_symbol) ==
    LET port_paren == GetModulePortParenGroup(module_symbol)
    IN  IF port_paren = Null THEN <<>>
        ELSE SelectSeq(FindAllPortReferences(port_paren), HasReferenceName)

\* The tier the ports of a module come from.
TierOf(module_symbol) ==
    IF ListDeclarations(module_symbol) # <<>> THEN "a"
    ELSE IF ParenDeclarations(module_symbol) # <<>> THEN "b"
    ELSE "c"

\* C14: GetModulePorts lists every named module once, and the ports of a module
\* come from one tier only: the declarations of the port declaration list;
\* those of the parenthesis group only when the list gave none; the bare port
\* references, with direction unknown and width 1, only when neither gave any.
\* The ports are as many as the declarations (or references) of that tier and
\* carry their names in order, so no declaration is reported twice.
C14_OneTier ==
    ModulePortsCalled =>
        /\ Len(result) = Len(NamedModules)
        /\ \A k \in 1..Len(result) :
              LET module_symbol == NamedModules[k]
                  ports == result[k].ports
                  tier == TierOf(module_symbol)
                  decls == IF tier = "a" THEN ListDeclarations(module_symbol)
                           ELSE ParenDeclarations(module_symbol)
                  refs == ParenReferences(module_symbol)
              IN  IF tier \in {"a", "b"}
                  THEN /\ Len(ports) = Len(decls)
                       /\ \A j \in 1..Len(ports) :
                             ports[j].name =
                                 GetIdentifierFromPortDeclaration(decls[j]).text
                  ELSE /\ Len(ports) = Len(refs)
                       /\ \A j \in 1..Len(ports) :
                             /\ ports[j].name =
                                    GetIdentifierFromPortReference(
                                        GetPortReferenceFromPort(refs[j])).text
                             /\ ports[j].direction = "unknown"
                             /\ ports[j].width = "1"

\* The three modules of OddText take their ports from tier a, b and c.
C14_Witness ==
    /\ ModulePortsCalled
    /\ last_good.text = OddText
    /\ Len(result) = 3
    /\ TierOf(NamedModules[1]) = "a" /\ Len(result[1].ports) = 3
    /\ TierOf(NamedModules[2]) = "b" /\ result[2].ports[1].name = "c"
    /\ TierOf(NamedModules[3]) = "c"
    /\ result[3].ports = <<[name |-> "d", direction |-> "unknown", width |-> "1"]>>

\* GetModuleInfo has answered for a snapshot that parsed.
ModuleInfoCalled == call.op = "GetModuleInfo" /\ has_tracker /\ last_good # Null

\* The direction keywords of a port declaration.
DirectionKeywords == {"input", "output", "inout"}

DataTypeOf(port_decl) ==
    IF GetSubtreeAsSymbol(port_decl, 2) # Null THEN GetSubtreeAsSymbol(port_decl, 2)
    ELSE GetSubtreeAsSymbol(port_decl, 1)

\* The range nodes under the packed dimensions packed_dims[i..], in source
\* order.
RECURSIVE RangesUnder(_, _)
RangesUnder(packed_dims, i) ==
    IF i > Len(packed_dims) THEN <<>>
    ELSE SearchSyntaxTree(packed_dims[i], "kDimensionRange")
         \o RangesUnder(packed_dims, i + 1)

HasBothBounds(range) ==
    /\ GetDimensionRangeLeftBound(range) # Null
    /\ GetDimensionRangeRightBound(range) # Null

\* The packed-dimension ranges with both bounds under the data type of a port.
CompleteRanges(port_decl) ==
    IF DataTypeOf(port_decl) = Null THEN <<>>
    ELSE SelectSeq(RangesUnder(SearchSyntaxTree(DataTypeOf(port_decl),
                                                "kPackedDimensions"), 1),
                   HasBothBounds)

\* The texts of a sequence of tokens written one after the other.
RECURSIVE JoinTexts(_, _)
JoinTexts(leaves, i) ==
    IF i > Len(leaves) THEN "" ELSE leaves[i].text \o JoinTexts(leaves, i + 1)

\* C16: the width of a reported port is 1 when no packed-dimension range with
\* both bounds lies under the data type of its declaration (and for ports taken
\* from bare references); otherwise it is [H:L], H and L being the texts of the
\* tokens under the left and the right bound of the first such range, written
\* one after the other as they stand in the source.
C16_Width ==
    (ModulePortsCalled \/ ModuleInfoCalled) =>
        /\ Len(result) = Len(NamedModules)
        /\ \A k \in 1..Len(result) :
              LET module_symbol == NamedModules[k]
                  ports == result[k].ports
                  tier == TierOf(module_symbol)
                  decls == IF tier = "a" THEN ListDeclarations(module_symbol)
                           ELSE ParenDeclarations(module_symbol)
              IN  IF tier = "c"
                  THEN \A j \in 1..Len(ports) : ports[j].width = "1"
                  ELSE /\ Len(ports) = Len(decls)
                       /\ \A j \in 1..Len(ports) :
                             LET ranges == CompleteRanges(decls[j])
                                 H == JoinTexts(LeavesOf(
                                          GetDimensionRangeLeftBound(ranges[1])), 1)
                                 L == JoinTexts(LeavesOf(
                                          GetDimensionRangeRightBound(ranges[1])), 1)
                             IN  IF ranges = <<>>
                                 THEN ports[j].width = "1"
                                 ELSE ports[j].width = "[" \o H \o ":" \o L \o "]"

\* GetModulePorts on AnsiText: a range of numbers, no range, and a range whose
\* left bound is an expression of three tokens.
C16_Witness ==
    /\ ModulePortsCalled
    /\ last_good.text = AnsiText
    /\ Len(result) = 1
    /\ result[1].ports[1] = [name |-> "a", direction |-> "input", width |-> "[3:0]"]
    /\ result[1].ports[2].width = "1"
    /\ result[1].ports[3].width = "[W-1:0]"

\* ---------------------------------------------------------------- instantiations
\* The six type names that stand for built-in types.
BuiltinTypeNames == {"reg", "wire", "logic", "integer", "real", "time"}

\* The type identifier of a data declaration, Null when it has none.
TypeIdOf(data_decl) ==
    LET inst_type == GetSubtreeAsSymbol(GetSubtreeAsSymbol(data_decl, 0), 0)
    IN  IF inst_type = Null THEN Null ELSE GetSubtreeAsSymbol(inst_type, 0)

\* The instances of the data declarations data_decls[i..] that are to be
\* reported, each with the type name of its declaration.
RECURSIVE InstancesOf(_, _)
InstancesOf(data_decls, i) ==
    IF i > Len(data_decls) THEN <<>>
    ELSE LET type_name == JoinTexts(LeavesOf(TypeIdOf(data_decls[i])), 1)
             inst_list == GetSubtreeAsSymbol(GetSubtreeAsSymbol(data_decls[i], 0), 1)
             instances == SearchSyntaxTree(inst_list, "kGateInstance")
         IN  (IF TypeIdOf(data_decls[i]) = Null THEN <<>>
              ELSE IF type_name \in BuiltinTypeNames THEN <<>>
              ELSE [n \in 1..Len(instances) |->
                       [type_name |-> type_name, instance |-> instances[n]]])
             \o InstancesOf(data_decls, i + 1)

\* The data declarations in the body of a module.
BodyDeclarations(module_symbol) ==
    SearchSyntaxTree(GetSubtreeAsSymbol(module_symbol, 1), "kDataDeclaration")

\* C17: the instantiations GetModuleInfo reports for a module are, in source
\* order, one for every instance of every data declaration of the body whose
\* type name is not reg, wire, logic, integer, real or time.  Each carries the
\* type name of its declaration; it carries the name of the instance and the
\* line of that name, or the empty name and line 0 when the instance has no
\* name token.  Declarations of the six built-in types give none.
C17_Instantiations ==
    ModuleInfoCalled =>
        /\ Len(result) = Len(NamedModules)
        /\ \A k \in 1..Len(result) :
              LET expected == InstancesOf(BodyDeclarations(NamedModules[k]), 1)
                  insts == result[k].instantiations
              IN  /\ Len(insts) = Len(expected)
                  /\ \A n \in 1..Len(insts) :
                        LET name_token == GetSubtreeAsSymbol(expected[n].instance, 0)
                        IN  /\ insts[n].moduleName = expected[n].type_name
                            /\ insts[n].moduleName \notin BuiltinTypeNames
                            /\ name_token # Null =>
                                  /\ insts[n].instanceName = name_token.text
                                  /\ insts[n].line =
                                        LineColOf(last_good.text, name_token.begin).line
                            /\ name_token = Null =>
                                  /\ insts[n].instanceName = ""
                                  /\ insts[n].line = 0

\* GetModuleInfo on AnsiText: the declaration of type sub_mod has the instance
\* u1 and an instance without a name, both reported; the declaration of type
\* logic has an instance and is not reported.
C17_Witness ==
    /\ ModuleInfoCalled
    /\ last_good.text = AnsiText
    /\ Len(BodyDeclarations(NamedModules[1])) = 2
    /\ result[1].instantiations =
          << [moduleName |-> "sub_mod", instanceName |-> "u1", line |-> 2],
             [moduleName |-> "sub_mod", instanceName |-> "", line |-> 0] >>

\* ---------------------------------------------------------------- missing input
\* The operations that read the last good snapshot; the others read the
\* current one.
ReadsLastGood == {"CreateDocumentSymbolOutline", "GetModulePorts", "GetModuleInfo"}

\* The snapshot the pending operation has read.
SnapshotRead == IF call.op \in ReadsLastGood THEN last_good ELSE current

ExpectedTopModules ==
    IF last_write.op = "SetTopModules"
    THEN {last_write.modules[i] : i \in 1..Len(last_write.modules)}
    ELSE {}

\* C20: after any sequence of SetTopModules and Clear the cache holds the names
\* of the list of the last SetTopModules, each once and none of an earlier
\* list, when no Clear came after it, and nothing otherwise; GetTopModules
\* returns that set and HasTopModules whether it is not empty.
C20_CacheContents ==
    /\ top_modules_ = ExpectedTopModules
    /\ call.op = "GetTopModules" => result = ExpectedTopModules
    /\ call.op = "HasTopModules" => result = (ExpectedTopModules # {})

\* SetTopModules with a list that names sub twice is called on a cache that
\* held top: GetTopModules returns adder and sub only.
C20_Witness ==
    /\ last_write.op = "SetTopModules"
    /\ last_write.before = {"top"}
    /\ last_write.modules = <<"sub", "adder", "sub">>
    /\ call.op = "GetTopModules"
    /\ result = {"adder", "sub"}

\* ---------------------------------------------------------------- ports of both operations
\* C29: for every module of the snapshot GetModuleInfo reports the name and the
\* ordered ports, with their names, directions and widths, that GetModulePorts
\* reports for it.
C29_SamePortsAsGetModulePorts ==
    ModuleInfoCalled =>
        LET ports == GetModulePorts(has_tracker, last_good)
        IN  /\ Len(result) = Len(ports)
            /\ \A k \in 1..Len(result) :
                  /\ result[k].name = ports[k].name
                  /\ result[k].ports = ports[k].ports

\* ---------------------------------------------------------------- lint rules: inputs
\* The files the GJB 10157 rules are run on, and the syntax trees and the
\* token stream the analyzer builds for them.
TopText == "module top(input clk, input unused, output y);\nassign y = clk;\nendmodule\nmodule sub(input a, wire b, output z);\nendmodule\n"

NonAnsiTopText == "module top(clk, unused, y);\ninput clk;\ninput unused;\noutput y;\nassign y = clk;\nendmodule\n"

InstText == "module top;\nsubmod inst1 (in1, in2, out1);\nsubmod inst2 (.clk(clock));\nsubmod inst3 ();\nendmodule\n"

CaseText == "module top1;\ntask Top1;\nendtask\nreg data;\nreg DATA;\nwire Data;\nreg DATA;\nendmodule\n"

PortCaseText == "module m(input Clk);\nwire clk;\nendmodule\n"

NestedText == "module outer;\nmodule inner;\nendmodule\nendmodule\nmodule m2;\nendmodule\nmodule m3;\nendmodule\n"

TypesText == "module test;\nreg a;\nwire b;\ninteger c;\ntri d;\nparameter e = 1;\nlogic f;\nbit g;\nint h;\ntri0 i;\nchandle j;\nendmodule\n"


\* A text the parser rejects: the analyzer has no syntax tree for it.
BrokenText == "module top("

TopTree ==
    Node("kDescriptionList", <<
      Node("kModuleDeclaration", <<
        Node("kModuleHeader", <<
          Leaf("TK_module", "module", 0, 6),
          Leaf("SymbolIdentifier", "top", 7, 10),
          Null,
          Node("kParenGroup", <<
            Leaf("lparen", "(", 10, 11),
            Node("kPortDeclarationList", <<
              Node("kPortDeclaration", <<
                Leaf("TK_input", "input", 11, 16),
                Null,
                Null,
                Leaf("SymbolIdentifier", "clk", 17, 20)>>),
              Leaf("comma", ",", 20, 21),
              Node("kPortDeclaration", <<
                Leaf("TK_input", "input", 22, 27),
                Null,
                Null,
                Leaf("SymbolIdentifier", "unused", 28, 34)>>),
              Leaf("comma", ",", 34, 35),
              Node("kPortDeclaration", <<
                Leaf("TK_output", "output", 36, 42),
                Null,
                Null,
                Leaf("SymbolIdentifier", "y", 43, 44)>>)>>),
            Leaf("rparen", ")", 44, 45)>>),
          Leaf("semicolon", ";", 45, 46)>>),
        Node("kModuleItemList", <<
          Node("kContinuousAssignmentStatement", <<
            Leaf("TK_assign", "assign", 47, 53),
            Node("kAssignmentList", <<
              Node("kNetVariableAssignment", <<
                Node("kLPValue", <<
                  Node("kReference", <<
                    Node("kLocalRoot", <<
                      Node("kUnqualifiedId", <<Leaf("SymbolIdentifier", "y", 54, 55)>>)>>)>>)>>),
                Leaf("equals", "=", 56, 57),
                Node("kExpression", <<
                  Node("kReference", <<
                    Node("kLocalRoot", <<
                      Node("kUnqualifiedId", <<Leaf("SymbolIdentifier", "clk", 58, 61)>>)>>)>>)>>)>>)>>),
            Leaf("semicolon", ";", 61, 62)>>)>>),
        Leaf("TK_endmodule", "endmodule", 63, 72)>>),
      Node("kModuleDeclaration", <<
        Node("kModuleHeader", <<
          Leaf("TK_module", "module", 73, 79),
          Leaf("SymbolIdentifier", "sub", 80, 83),
          Null,
          Node("kParenGroup", <<
            Leaf("lparen", "(", 83, 84),
            Node("kPortDeclarationList", <<
              Node("kPortDeclaration", <<
                Leaf("TK_input", "input", 84, 89),
                Null,
                Null,
                Leaf("SymbolIdentifier", "a", 90, 91)>>),
              Leaf("comma", ",", 91, 92),
              Node("kPortDeclaration", <<
                Null,
                Leaf("TK_wire", "wire", 93, 97),
                Null,
                Leaf("SymbolIdentifier", "b", 98, 99)>>),
              Leaf("comma", ",", 99, 100),
              Node("kPortDeclaration", <<
                Leaf("TK_output", "output", 101, 107),
                Null,
                Null,
                Leaf("SymbolIdentifier", "z", 108, 109)>>)>>),
            Leaf("rparen", ")", 109, 110)>>),
          Leaf("semicolon", ";", 110, 111)>>),
        Node("kModuleItemList", <<>>),
        Leaf("TK_endmodule", "endmodule", 112, 121)>>)>>)

NonAnsiTopTree ==
    Node("kDescriptionList", <<
      Node("kModuleDeclaration", <<
        Node("kModuleHeader", <<
          Leaf("TK_module", "module", 0, 6),
          Leaf("SymbolIdentifier", "top", 7, 10),
          Null,
          Node("kParenGroup", <<
            Leaf("lparen", "(", 10, 11),
            Node("kPortDeclarationList", <<
              Node("kPort", <<
                Node("kPortReference", <<Leaf("SymbolIdentifier", "clk", 11, 14), Null>>)>>),
              Leaf("comma", ",", 14, 15),
              Node("kPort", <<
                Node("kPortReference", <<Leaf("SymbolIdentifier", "unused", 16, 22), Null>>)>>),
              Leaf("comma", ",", 22, 23),
              Node("kPort", <<
                Node("kPortReference", <<Leaf("SymbolIdentifier", "y", 24, 25), Null>>)>>)>>),
            Leaf("rparen", ")", 25, 26)>>),
          Leaf("semicolon", ";", 26, 27)>>),
        Node("kModuleItemList", <<
          Node("kModulePortDeclaration", <<
            Leaf("TK_input", "input", 28, 33),
            Node("kIdentifierUnpackedDimensionsList", <<
              Leaf("SymbolIdentifier", "clk", 34, 37)>>),
            Leaf("semicolon", ";", 37, 38)>>),
          Node("kModulePortDeclaration", <<
            Leaf("TK_input", "input", 39, 44),
            Node("kIdentifierUnpackedDimensionsList", <<
              Leaf("SymbolIdentifier", "unused", 45, 51)>>),
            Leaf("semicolon", ";", 51, 52)>>),
          Node("kModulePortDeclaration", <<
            Leaf("TK_output", "output", 53, 59),
            Node("kIdentifierUnpackedDimensionsList", <<
              Leaf("SymbolIdentifier", "y", 60, 61)>>),
            Leaf("semicolon", ";", 61, 62)>>),
          Node("kContinuousAssignmentStatement", <<
            Leaf("TK_assign", "assign", 63, 69),
            Node("kAssignmentList", <<
              Node("kNetVariableAssignment", <<
                Node("kLPValue", <<
                  Node("kReference", <<
                    Node("kLocalRoot", <<
                      Node("kUnqualifiedId", <<Leaf("SymbolIdentifier", "y", 70, 71)>>)>>)>>)>>),
                Leaf("equals", "=", 72, 73),
                Node("kExpression", <<
                  Node("kReference", <<
                    Node("kLocalRoot", <<
                      Node("kUnqualifiedId", <<Leaf("SymbolIdentifier", "clk", 74, 77)>>)>>)>>)>>)>>)>>),
            Leaf("semicolon", ";", 77, 78)>>)>>),
        Leaf("TK_endmodule", "endmodule", 79, 88)>>)>>)

InstTree ==
    Node("kDescriptionList", <<
      Node("kModuleDeclaration", <<
        Node("kModuleHeader", <<
          Leaf("TK_module", "module", 0, 6),
          Leaf("SymbolIdentifier", "top", 7, 10),
          Null,
          Null,
          Leaf("semicolon", ";", 10, 11)>>),
        Node("kModuleItemList", <<
          Node("kDataDeclaration", <<
            Node("kInstantiationBase", <<
              Node("kInstantiationType", <<
                Node("kUnqualifiedId", <<Leaf("SymbolIdentifier", "submod", 12, 18)>>)>>),
              Node("kGateInstanceRegisterVariableList", <<
                Node("kGateInstance", <<
                  Leaf("SymbolIdentifier", "inst1", 19, 24),
                  Node("kParenGroup", <<
                    Leaf("lparen", "(", 25, 26),
                    Node("kPortActualList", <<
                      Node("kActualPositionalPort", <<
                        Node("kExpression", <<
                          Node("kReference", <<
                            Node("kLocalRoot", <<
                              Node("kUnqualifiedId", <<
                                Leaf("SymbolIdentifier", "in1", 26, 29)>>)>>)>>)>>)>>),
                      Leaf("comma", ",", 29, 30),
                      Node("kActualPositionalPort", <<
                        Node("kExpression", <<
                          Node("kReference", <<
                            Node("kLocalRoot", <<
                              Node("kUnqualifiedId", <<
                                Leaf("SymbolIdentifier", "in2", 31, 34)>>)>>)>>)>>)>>),
                      Leaf("comma", ",", 34, 35),
                      Node("kActualPositionalPort", <<
                        Node("kExpression", <<
                          Node("kReference", <<
                            Node("kLocalRoot", <<
                              Node("kUnqualifiedId", <<
                                Leaf("SymbolIdentifier", "out1", 36, 40)>>)>>)>>)>>)>>)>>),
                    Leaf("rparen", ")", 40, 41)>>)>>)>>)>>),
            Leaf("semicolon", ";", 41, 42)>>),
          Node("kDataDeclaration", <<
            Node("kInstantiationBase", <<
              Node("kInstantiationType", <<
                Node("kUnqualifiedId", <<Leaf("SymbolIdentifier", "submod", 43, 49)>>)>>),
              Node("kGateInstanceRegisterVariableList", <<
                Node("kGateInstance", <<
                  Leaf("SymbolIdentifier", "inst2", 50, 55),
                  Node("kParenGroup", <<
                    Leaf("lparen", "(", 56, 57),
                    Node("kPortActualList", <<
                      Node("kActualNamedPort", <<
                        Leaf("dot", ".", 57, 58),
                        Leaf("SymbolIdentifier", "clk", 58, 61),
                        Node("kParenGroup", <<
                          Leaf("lparen", "(", 61, 62),
                          Node("kExpression", <<
                            Node("kReference", <<
                              Node("kLocalRoot", <<
                                Node("kUnqualifiedId", <<
                                  Leaf("SymbolIdentifier", "clock", 62, 67)>>)>>)>>)>>),
                          Leaf("rparen", ")", 67, 68)>>)>>)>>),
                    Leaf("rparen", ")", 68, 69)>>)>>)>>)>>),
            Leaf("semicolon", ";", 69, 70)>>),
          Node("kDataDeclaration", <<
            Node("kInstantiationBase", <<
              Node("kInstantiationType", <<
                Node("kUnqualifiedId", <<Leaf("SymbolIdentifier", "submod", 71, 77)>>)>>),
              Node("kGateInstanceRegisterVariableList", <<
                Node("kGateInstance", <<
                  Leaf("SymbolIdentifier", "inst3", 78, 83),
                  Node("kParenGroup", <<
                    Leaf("lparen", "(", 84, 85),
                    Node("kPortActualList", <<>>),
                    Leaf("rparen", ")", 85, 86)>>)>>)>>)>>),
            Leaf("semicolon", ";", 86, 87)>>)>>),
        Leaf("TK_endmodule", "endmodule", 88, 97)>>)>>)

CaseTree ==
    Node("kDescriptionList", <<
      Node("kModuleDeclaration", <<
        Node("kModuleHeader", <<
          Leaf("TK_module", "module", 0, 6),
          Leaf("SymbolIdentifier", "top1", 7, 11),
          Null,
          Null,
          Leaf("semicolon", ";", 11, 12)>>),
        Node("kModuleItemList", <<
          Node("kTaskDeclaration", <<
            Node("kTaskHeader", <<
              Leaf("TK_task", "task", 13, 17),
              Null,
              Node("kUnqualifiedId", <<Leaf("SymbolIdentifier", "Top1", 18, 22)>>),
              Null,
              Leaf("semicolon", ";", 22, 23)>>),
            Null,
            Null,
            Leaf("TK_endtask", "endtask", 24, 31)>>),
          Node("kDataDeclaration", <<
            Node("kInstantiationBase", <<
              Node("kInstantiationType", <<
                Node("kDataType", <<
                  Node("kDataTypePrimitive", <<Leaf("TK_reg", "reg", 32, 35)>>)>>)>>),
              Node("kGateInstanceRegisterVariableList", <<
                Node("kRegisterVariable", <<
                  Leaf("SymbolIdentifier", "data", 36, 40),
                  Null,
                  Null>>)>>)>>),
            Leaf("semicolon", ";", 40, 41)>>),
          Node("kDataDeclaration", <<
            Node("kInstantiationBase", <<
              Node("kInstantiationType", <<
                Node("kDataType", <<
                  Node("kDataTypePrimitive", <<Leaf("TK_reg", "reg", 42, 45)>>)>>)>>),
              Node("kGateInstanceRegisterVariableList", <<
                Node("kRegisterVariable", <<
                  Leaf("SymbolIdentifier", "DATA", 46, 50),
                  Null,
                  Null>>)>>)>>),
            Leaf("semicolon", ";", 50, 51)>>),
          Node("kNetDeclaration", <<
            Leaf("TK_wire", "wire", 52, 56),
            Null,
            Node("kNetVariableDeclarationAssign", <<
              Node("kNetVariable", <<Leaf("SymbolIdentifier", "Data", 57, 61), Null>>)>>),
            Leaf("semicolon", ";", 61, 62)>>),
          Node("kDataDeclaration", <<
            Node("kInstantiationBase", <<
              Node("kInstantiationType", <<
                Node("kDataType", <<
                  Node("kDataTypePrimitive", <<Leaf("TK_reg", "reg", 63, 66)>>)>>)>>),
              Node("kGateInstanceRegisterVariableList", <<
                Node("kRegisterVariable", <<
                  Leaf("SymbolIdentifier", "DATA", 67, 71),
                  Null,
                  Null>>)>>)>>),
            Leaf("semicolon", ";", 71, 72)>>)>>),
        Leaf("TK_endmodule", "endmodule", 73, 82)>>)>>)

PortCaseTree ==
    Node("kDescriptionList", <<
      Node("kModuleDeclaration", <<
        Node("kModuleHeader", <<
          Leaf("TK_module", "module", 0, 6),
          Leaf("SymbolIdentifier", "m", 7, 8),
          Null,
          Node("kParenGroup", <<
            Leaf("lparen", "(", 8, 9),
            Node("kPortDeclarationList", <<
              Node("kPortDeclaration", <<
                Leaf("TK_input", "input", 9, 14),
                Null,
                Null,
                Leaf("SymbolIdentifier", "Clk", 15, 18)>>)>>),
            Leaf("rparen", ")", 18, 19)>>),
          Leaf("semicolon", ";", 19, 20)>>),
        Node("kModuleItemList", <<
          Node("kNetDeclaration", <<
            Leaf("TK_wire", "wire", 21, 25),
            Null,
            Node("kNetVariableDeclarationAssign", <<
              Node("kNetVariable", <<Leaf("SymbolIdentifier", "clk", 26, 29), Null>>)>>),
            Leaf("semicolon", ";", 29, 30)>>)>>),
        Leaf("TK_endmodule", "endmodule", 31, 40)>>)>>)

NestedTree ==
    Node("kDescriptionList", <<
      Node("kModuleDeclaration", <<
        Node("kModuleHeader", <<
          Leaf("TK_module", "module", 0, 6),
          Leaf("SymbolIdentifier", "outer", 7, 12),
          Null,
          Null,
          Leaf("semicolon", ";", 12, 13)>>),
        Node("kModuleItemList", <<
          Node("kModuleDeclaration", <<
            Node("kModuleHeader", <<
              Leaf("TK_module", "module", 14, 20),
              Leaf("SymbolIdentifier", "inner", 21, 26),
              Null,
              Null,
              Leaf("semicolon", ";", 26, 27)>>),
            Node("kModuleItemList", <<>>),
            Leaf("TK_endmodule", "endmodule", 28, 37)>>)>>),
        Leaf("TK_endmodule", "endmodule", 38, 47)>>),
      Node("kModuleDeclaration", <<
        Node("kModuleHeader", <<
          Leaf("TK_module", "module", 48, 54),
          Leaf("SymbolIdentifier", "m2", 55, 57),
          Null,
          Null,
          Leaf("semicolon", ";", 57, 58)>>),
        Node("kModuleItemList", <<>>),
        Leaf("TK_endmodule", "endmodule", 59, 68)>>),
      Node("kModuleDeclaration", <<
        Node("kModuleHeader", <<
          Leaf("TK_module", "module", 69, 75),
          Leaf("SymbolIdentifier", "m3", 76, 78),
          Null,
          Null,
          Leaf("semicolon", ";", 78, 79)>>),
        Node("kModuleItemList", <<>>),
        Leaf("TK_endmodule", "endmodule", 80, 89)>>)>>)

TypesTokens ==
    << Leaf("TK_module", "module", 0, 6),
       Leaf("SymbolIdentifier", "test", 7, 11),
       Leaf("semicolon", ";", 11, 12),
       Leaf("TK_reg", "reg", 13, 16),
       Leaf("SymbolIdentifier", "a", 17, 18),
       Leaf("semicolon", ";", 18, 19),
       Leaf("TK_wire", "wire", 20, 24),
       Leaf("SymbolIdentifier", "b", 25, 26),
       Leaf("semicolon", ";", 26, 27),
       Leaf("TK_integer", "integer", 28, 35),
       Leaf("SymbolIdentifier", "c", 36, 37),
       Leaf("semicolon", ";", 37, 38),
       Leaf("TK_tri", "tri", 39, 42),
       Leaf("SymbolIdentifier", "d", 43, 44),
       Leaf("semicolon", ";", 44, 45),
       Leaf("TK_parameter", "parameter", 46, 55),
       Leaf("SymbolIdentifier", "e", 56, 57),
       Leaf("equals", "=", 58, 59),
       Leaf("TK_DecNumber", "1", 60, 61),
       Leaf("semicolon", ";", 61, 62),
       Leaf("TK_logic", "logic", 63, 68),
       Leaf("SymbolIdentifier", "f", 69, 70),
       Leaf("semicolon", ";", 70, 71),
       Leaf("TK_bit", "bit", 72, 75),
       Leaf("SymbolIdentifier", "g", 76, 77),
       Leaf("semicolon", ";", 77, 78),
       Leaf("TK_int", "int", 79, 82),
       Leaf("SymbolIdentifier", "h", 83, 84),
       Leaf("semicolon", ";", 84, 85),
       Leaf("TK_tri0", "tri0", 86, 90),
       Leaf("SymbolIdentifier", "i", 91, 92),
       Leaf("semicolon", ";", 92, 93),
       Leaf("TK_chandle", "chandle", 94, 101),
       Leaf("SymbolIdentifier", "j", 102, 103),
       Leaf("semicolon", ";", 103, 104),
       Leaf("TK_endmodule", "endmodule", 105, 114) >>

LintTexts ==
    {TopText, NonAnsiTopText, InstText, CaseText, PortCaseText, NestedText,
     TypesText, EmptyText, BrokenText}

\* TextStructureView::SyntaxTree of a linted file.
LintTreeOf(text) ==
    CASE text = TopText -> TopTree
      [] text = NonAnsiTopText -> NonAnsiTopTree
      [] text = AnsiText -> AnsiTree
      [] text = InstText -> InstTree
      [] text = CaseText -> CaseTree
      [] text = PortCaseText -> PortCaseTree
      [] text = NestedText -> NestedTree
      [] text = BrokenText -> Null
      [] OTHER -> EmptyTree

\* The elements of a sequence.
Elements(seq) == {seq[i] : i \in 1..Len(seq)}

\* std::string_view::find(needle) != npos
Contains(text, needle) ==
    \E i \in 1..(Len(text) - Len(needle) + 1) : SubSeq(text, i, i + Len(needle) - 1) = needle

\* absl::StrSplit(text, delimiter) and absl::StrSplit(text, delimiter,
\* absl::SkipEmpty()): the pieces between the delimiters, from position i on,
\* piece being the part of the current piece read so far.
RECURSIVE StrSplitFrom(_, _, _, _, _)
StrSplitFrom(text, delimiter, skip_empty, i, piece) ==
    LET done == IF skip_empty /\ piece = "" THEN <<>> ELSE <<piece>>
    IN  IF i > Len(text) THEN done
        ELSE IF SubSeq(text, i, i) = delimiter
             THEN done \o StrSplitFrom(text, delimiter, skip_empty, i + 1, "")
             ELSE StrSplitFrom(text, delimiter, skip_empty, i + 1, piece \o SubSeq(text, i, i))

StrSplit(text, delimiter, skip_empty) == StrSplitFrom(text, delimiter, skip_empty, 1, "")

\* verible::LintViolation: the token a finding is anchored at and its message.
LintViolation(token, reason) == [token |-> token, reason |-> reason]

\* ---------------------------------------------------------------- GJB-10157-R-2-10
\* The values of the flag --top_modules.
TopModulesFlags == {"", "top", "sub,top", ",", "adder,,child"}

\* TopModulesCache::HasTopModules and GetTopModules on the contents of the cache.
HasTopModules(top_modules) == top_modules # {}

GetTopModules(top_modules) == top_modules

FindAllModulePortDeclarations(root) == SearchSyntaxTree(root, "kModulePortDeclaration")

GetDirectionFromModulePortDeclaration(port_decl) == GetSubtreeAsSymbol(port_decl, 0)

GetIdentifierFromModulePortDeclaration(port_decl) ==
    LET leaves == LeavesOf(GetSubtreeAsSymbol(port_decl, 1))
    IN  IF leaves = <<>> THEN Null ELSE leaves[1]

\* The port declarations of a sequence that are kept as input ports.
PortInfos(decls, direction_of, identifier_of, is_input(_)) ==
    LET kept == SelectSeq(decls, LAMBDA d :
                    /\ direction_of[d] # Null
                    /\ is_input(direction_of[d].text)
                    /\ identifier_of[d] # Null)
    IN  [i \in 1..Len(kept) |->
            [token |-> identifier_of[kept[i]], name |-> identifier_of[kept[i]].text]]

CollectAnsiPortsOfAnyDirection(module_symbol) ==
    LET decls == FindAllPortDeclarations(module_symbol)
    IN  PortInfos(decls,
                  [d \in Elements(decls) |-> GetDirectionFromPortDeclaration(d)],
                  [d \in Elements(decls) |-> GetIdentifierFromPortDeclaration(d)],
                  LAMBDA direction : TRUE)

\* CollectAnsiInputPorts: the port declarations whose direction reads input.
CollectAnsiInputPorts(module_symbol) ==
    LET decls == FindAllPortDeclarations(module_symbol)
    IN  PortInfos(decls,
                  [d \in Elements(decls) |-> GetDirectionFromPortDeclaration(d)],
                  [d \in Elements(decls) |-> GetIdentifierFromPortDeclaration(d)],
                  LAMBDA direction : direction = "input")

\* CollectNonAnsiInputPorts: the port declarations of the body whose direction
\* contains input.
CollectNonAnsiInputPorts(module_symbol) ==
    LET decls == FindAllModulePortDeclarations(module_symbol)
    IN  PortInfos(decls,
                  [d \in Elements(decls) |-> GetDirectionFromModulePortDeclaration(d)],
                  [d \in Elements(decls) |-> GetIdentifierFromModulePortDeclaration(d)],
                  LAMBDA direction : Contains(direction, "input"))

\* CountAllIdentifiers: the texts of the identifier tokens of a subtree, the
\* non-ANSI port declarations left out; id_counts[name] is the number of times
\* name is among them.
RECURSIVE CountAllIdentifiers(_), CountAllIdentifiersOfChildren(_, _)
CountAllIdentifiers(symbol) ==
    IF symbol.kind = "leaf"
    THEN (IF symbol.token_enum = "SymbolIdentifier" THEN <<symbol.text>> ELSE <<>>)
    ELSE IF symbol.tag = "kModulePortDeclaration" THEN <<>>
    ELSE CountAllIdentifiersOfChildren(symbol.children, 1)

CountAllIdentifiersOfChildren(children, i) ==
    IF i > Len(children) THEN <<>>
    ELSE (IF children[i] = Null THEN <<>> ELSE CountAllIdentifiers(children[i]))
         \o CountAllIdentifiersOfChildren(children, i + 1)

id_counts(identifiers, name) == Cardinality({i \in 1..Len(identifiers) : identifiers[i] = name})

\* GetModuleBody: the first item list of a module declaration.
GetModuleBody(module_decl) ==
    LET matches == SearchSyntaxTree(module_decl, "kModuleItemList")
    IN  IF matches = <<>> THEN Null ELSE matches[1]

\* The start of Lint: the names of the flag when it has any, the contents of
\* the cache otherwise.
TopModulesOfFlagAndCache(flag, cache) == Elements(StrSplit(flag, ",", TRUE)) \cup cache

TopModulesSet(flag, cache) ==
    LET from_flag == Elements(StrSplit(flag, ",", TRUE))
    IN  IF from_flag # {} THEN from_flag
        ELSE IF HasTopModules(cache) THEN GetTopModules(cache)
        ELSE {}

IsTopModule(module_name, top_modules_set) == module_name \in top_modules_set

FloatingInputReason(module_name, port_name) ==
    "Top-level module '" \o module_name \o "': Input port '" \o port_name
    \o "' is declared but never used (floating input). [GJB 10157 R-2-10]"

\* The body of the loop of Lint over the module declarations.
FloatingInputsOfModule(module_symbol, top_modules_set) ==
    LET module_name_leaf == GetModuleName(module_symbol)
    IN  IF module_name_leaf = Null THEN {}
        ELSE IF ~IsTopModule(module_name_leaf.text, top_modules_set) THEN {}
        ELSE LET input_ports == CollectAnsiInputPorts(module_symbol)
                                \o CollectNonAnsiInputPorts(module_symbol)
                 module_body == GetModuleBody(module_symbol)
                 counted == IF module_body = Null THEN <<>>
                            ELSE CountAllIdentifiers(module_body)
             IN  {LintViolation(input_ports[i].token,
                                FloatingInputReason(module_name_leaf.text, input_ports[i].name)) :
                    i \in {j \in 1..Len(input_ports) : id_counts(counted, input_ports[j].name) = 0}}

\* Gjb10157R210Rule::Lint
Gjb10157R210Rule_Lint(tree, flag, cache) ==
    IF tree = Null THEN {}
    ELSE LET top_modules_set == TopModulesSet(flag, cache)
         IN  IF top_modules_set = {} THEN {}
             ELSE UNION {FloatingInputsOfModule(m, top_modules_set) :
                            m \in Elements(FindAllModuleDeclarations(tree))}

\* ---------------------------------------------------------------- syntax tree with context
\* A tree visitor and verible::SearchSyntaxTree keep for every symbol its
\* SyntaxTreeContext, the tags of the nodes above it from the root down: the
\* nodes of a subtree in pre-order, each with its context.
RECURSIVE NodesWithContext(_, _), NodesWithContextOfChildren(_, _, _)
NodesWithContext(symbol, context) ==
    IF symbol = Null THEN <<>>
    ELSE IF symbol.kind = "leaf" THEN <<>>
    ELSE << [match |-> symbol, context |-> context] >>
         \o NodesWithContextOfChildren(symbol.children, 1, Append(context, symbol.tag))

NodesWithContextOfChildren(children, i, context) ==
    IF i > Len(children) THEN <<>>
    ELSE NodesWithContext(children[i], context)
         \o NodesWithContextOfChildren(children, i + 1, context)

\* SyntaxTreeContext::IsInside
IsInside(context, tag) == \E i \in 1..Len(context) : context[i] = tag

\* verible::GetLeftmostLeaf
GetLeftmostLeaf(symbol) ==
    LET leaves == LeavesOf(symbol)
    IN  IF leaves = <<>> THEN Null ELSE leaves[1]

\* ---------------------------------------------------------------- GJB-10157-R-2-9
ContextIsInsideModule(context) == IsInside(context, "kModuleDeclaration")

\* InstanceMatcher: a gate instance with a parenthesis group that holds a list of
\* actual ports; the list is bound, Null when the symbol does not match.
InstanceMatcher(symbol) ==
    IF symbol.tag # "kGateInstance" THEN Null
    ELSE LET groups == SelectSeq(symbol.children, LAMBDA ch :
                           ch # Null /\ ch.kind = "node" /\ ch.tag = "kParenGroup")
             lists == IF groups = <<>> THEN <<>>
                      ELSE SelectSeq(groups[1].children, LAMBDA ch :
                               ch # Null /\ ch.kind = "node" /\ ch.tag = "kPortActualList")
         IN  IF lists = <<>> THEN Null ELSE lists[1]

R29Message ==
    "Positional port mapping is prohibited in module instantiation. "
    \o "Use named port mapping instead (e.g., .port_name(signal)). [GJB 10157 R-2-9]"

\* Gjb10157R29Rule::HandleSymbol: the violations one node of the tree adds.
Gjb10157R29Rule_HandleSymbol(symbol, context) ==
    IF ~ContextIsInsideModule(context) THEN {}
    ELSE LET port_list_node == InstanceMatcher(symbol)
         IN  IF port_list_node = Null THEN {}
             ELSE {LintViolation(GetLeftmostLeaf(port_list_node.children[i]), R29Message) :
                     i \in {j \in 1..Len(port_list_node.children) :
                               LET child == port_list_node.children[j]
                               IN  /\ child # Null
                                   /\ child.kind = "node"
                                   /\ child.tag = "kActualPositionalPort"
                                   /\ GetLeftmostLeaf(child) # Null}}

\* The rule run on a file: the visitor hands every node to HandleSymbol.
Gjb10157R29Rule_Lint(tree) ==
    LET nodes == NodesWithContext(tree, <<>>)
    IN  UNION {Gjb10157R29Rule_HandleSymbol(nodes[i].match, nodes[i].context) : i \in 1..Len(nodes)}

\* ---------------------------------------------------------------- GJB-10157-R-2-6
UpperCaseLetters == "ABCDEFGHIJKLMNOPQRSTUVWXYZ"

LowerCaseLetters == "abcdefghijklmnopqrstuvwxyz"

\* absl::AsciiStrToLower
RECURSIVE AsciiStrToLower(_)
AsciiStrToLower(text) ==
    IF text = "" THEN ""
    ELSE LET ch == SubSeq(text, 1, 1)
             upper == {k \in 1..Len(UpperCaseLetters) : SubSeq(UpperCaseLetters, k, k) = ch}
             lower == IF upper = {} THEN ch
                      ELSE LET k == CHOOSE k \in upper : TRUE
                           IN  SubSeq(LowerCaseLetters, k, k)
         IN  lower \o AsciiStrToLower(SubSeq(text, 2, Len(text)))

\* The kinds of declaration Lint searches the tree for, in the order of its
\* searches.
DeclarationKinds ==
    << "kModuleDeclaration", "kFunctionDeclaration", "kTaskDeclaration",
       "kClassDeclaration", "kPackageDeclaration", "kInterfaceDeclaration",
       "kRegisterVariable", "kNetVariable", "kModulePortDeclaration",
       "kPortDeclaration", "kGateInstance" >>

\* GetModuleName, GetFunctionName, GetTaskName, GetClassName,
\* GetPackageNameToken, GetInterfaceNameToken,
\* GetInstanceNameTokenInfoFromRegisterVariable, GetNameLeafOfNetVariable,
\* GetIdentifierFromModulePortDeclaration, GetIdentifierFromPortDeclaration and
\* GetModuleInstanceNameTokenInfoFromGateInstance: the token that names a
\* declaration, Null when it has none.
DeclaredName(symbol) ==
    CASE symbol.tag = "kModuleDeclaration" -> GetModuleName(symbol)
      [] symbol.tag = "kRegisterVariable" -> GetSubtreeAsSymbol(symbol, 0)
      [] symbol.tag = "kNetVariable" -> GetSubtreeAsSymbol(symbol, 0)
      [] symbol.tag = "kModulePortDeclaration" -> GetIdentifierFromModulePortDeclaration(symbol)
      [] symbol.tag = "kPortDeclaration" -> GetIdentifierFromPortDeclaration(symbol)
      [] symbol.tag = "kGateInstance" -> GetModuleInstanceNameTokenInfoFromGateInstance(symbol)
      [] OTHER -> GetLeftmostLeaf(GetSubtreeAsSymbol(GetSubtreeAsSymbol(symbol, 0), 2))

\* The declarations of one kind, in the order of the search, and of the kinds
\* from the k-th on: what add_identifier has appended when the searches are done.
RECURSIVE CollectIdentifiers(_, _)
CollectIdentifiers(tree, k) ==
    IF k > Len(DeclarationKinds) THEN <<>>
    ELSE LET matches == SearchSyntaxTree(tree, DeclarationKinds[k])
             names == [i \in 1..Len(matches) |-> DeclaredName(matches[i])]
         IN  SelectSeq(names, LAMBDA name : name # Null) \o CollectIdentifiers(tree, k + 1)

CaseDifferenceReason(current_name, first_name) ==
    "Identifier '" \o current_name \o "' differs from '" \o first_name
    \o "' only by case. Do not use case alone to distinguish identifiers. [GJB 10157 R-2-6]"

\* The loop over identifier_map: for the identifiers of one lowercase form, in
\* the order they were appended, each spelling that is not the first one's is
\* reported where it is met first.
CaseOnlyDifferences(identifiers) ==
    {LintViolation(identifiers[i], CaseDifferenceReason(identifiers[i].text, identifiers[1].text)) :
        i \in {j \in 2..Len(identifiers) :
                  \A h \in 1..(j - 1) : identifiers[h].text # identifiers[j].text}}

\* Gjb10157R26Rule::Lint
Gjb10157R26Rule_Lint(tree) ==
    IF tree = Null THEN {}
    ELSE LET collected == CollectIdentifiers(tree, 1)
             lower_names == {AsciiStrToLower(collected[i].text) : i \in 1..Len(collected)}
         IN  UNION {CaseOnlyDifferences(SelectSeq(collected,
                        LAMBDA token : AsciiStrToLower(token.text) = lower_name)) :
                    lower_name \in lower_names}

\* ---------------------------------------------------------------- GJB-10157-R-2-5
\* FindAllModuleDeclarations with the context of every match.
FindAllModuleDeclarationsWithContext(tree) ==
    SelectSeq(NodesWithContext(tree, <<>>), LAMBDA m : m.match.tag = "kModuleDeclaration")

KeepNestedModules(module_matches) == module_matches

\* std::remove_copy_if of the matches that are inside a module declaration.
RemoveNestedModules(module_matches) ==
    SelectSeq(module_matches, LAMBDA m : ~IsInside(m.context, "kModuleDeclaration"))

\* absl::StrCat of a number: its decimal digits.
MultipleModulesReason(module_name, position) ==
    "Multiple modules in one file: module '" \o module_name \o "' is the "
    \o ToString(position) \o "th module in this file. "
    \o "Each file should contain only one module. [GJB 10157 R-2-5]"

\* Gjb10157R25Rule::Lint
Gjb10157R25Rule_Lint(tree) ==
    IF tree = Null THEN {}
    ELSE LET module_matches == FindAllModuleDeclarationsWithContext(tree)
             module_cleaned == RemoveNestedModules(module_matches)
         IN  IF module_matches = <<>> THEN {}
             ELSE IF Len(module_cleaned) <= 1 THEN {}
             ELSE {LintViolation(GetModuleName(module_cleaned[i].match),
                                 MultipleModulesReason(GetModuleName(module_cleaned[i].match).text, i)) :
                     i \in {j \in 2..Len(module_cleaned) :
                               GetModuleName(module_cleaned[j].match) # Null}}

\* ---------------------------------------------------------------- GJB-10157-A-2-1
\* The names of the linted file.
Filenames == {"-", "/path/to/top.sv", "m3.v.bak", "inner.sv", "dir.d/outer", "/path/to/.sv"}

\* verible::file::IsStdin
IsStdin(filename) == filename = "-"

\* verible::file::Basename: what follows the last slash.
Basename(filename) ==
    LET slashes == {i \in 1..Len(filename) : SubSeq(filename, i, i) = "/"}
    IN  IF slashes = {} THEN filename
        ELSE LET last == CHOOSE i \in slashes : \A j \in slashes : j <= i
             IN  SubSeq(filename, last + 1, Len(filename))

AnyNamedModuleMatches(s, name) == GetModuleName(s) # Null

ModuleNameMatches(s, name) ==
    LET module_leaf == GetModuleName(s)
    IN  module_leaf # Null /\ module_leaf.text = name

FilenameReason(unitname, module_name) ==
    "Filename '" \o unitname \o "' does not match module name '" \o module_name
    \o "'. Suggest renaming file or module. [GJB 10157 A-2-1]"

\* Gjb10157A21Rule::Lint
Gjb10157A21Rule_Lint(tree, filename) ==
    IF IsStdin(filename) THEN {}
    ELSE IF tree = Null THEN {}
    ELSE LET module_matches == FindAllModuleDeclarationsWithContext(tree)
             module_cleaned == RemoveNestedModules(module_matches)
             basename == Basename(filename)
             unitname == StrSplit(basename, ".", FALSE)[1]
         IN  IF module_matches = <<>> THEN {}
             ELSE IF unitname = "" THEN {}
             ELSE IF \E i \in 1..Len(module_cleaned) :
                        ModuleNameMatches(module_cleaned[i].match, unitname) THEN {}
             ELSE LET last_module_id == GetModuleName(module_cleaned[Len(module_cleaned)].match)
                  IN  IF last_module_id = Null THEN {}
                      ELSE {LintViolation(last_module_id,
                                          FilenameReason(unitname, last_module_id.text))}

\* ---------------------------------------------------------------- GJB-10157-R-2-8
\* TextStructureView::TokenStream of a linted file: the tokens of a file that
\* has a syntax tree are the leaves of the tree.
LintTokenStream(text) ==
    CASE text = TypesText -> TypesTokens
      [] text = BrokenText ->
            << Leaf("TK_module", "module", 0, 6), Leaf("SymbolIdentifier", "top", 7, 10),
               Leaf("lparen", "(", 10, 11) >>
      [] OTHER -> LeavesOf(LintTreeOf(text))

\* The switch of HandleToken: the token types that set is_forbidden, each with
\* its type_name.
ForbiddenTypes ==
    {"logic", "bit", "byte", "int", "shortint", "longint", "real", "realtime",
     "shortreal", "string", "time", "wreal"}

ForbiddenTypeReason(type_name) ==
    "Forbidden data type '" \o type_name
    \o "'. Only reg, wire, integer, tri and parameter are allowed. [GJB 10157 R-2-8]"

\* Gjb10157R28Rule::HandleToken: the violations one token adds.
Gjb10157R28Rule_HandleToken(token) ==
    LET matching == {type_name \in ForbiddenTypes : token.token_enum = "TK_" \o type_name}
    IN  {LintViolation(token, ForbiddenTypeReason(type_name)) : type_name \in matching}

\* The rule run on a file: every token of the stream is handed to HandleToken.
Gjb10157R28Rule_Lint(text) ==
    LET stream == LintTokenStream(text)
    IN  UNION {Gjb10157R28Rule_HandleToken(stream[i]) : i \in 1..Len(stream)}

\* ---------------------------------------------------------------- GJB-10157-R-2-7
\* The characters of a line are their ASCII codes. The printable characters from
\* the space (32) to the tilde (126) in the order of their codes; the place of
\* the backquote (96) holds a space.
AsciiTable ==
    " !\"#$%&'()*+,-./0123456789:;<=>?@ABCDEFGHIJKLMNOPQRSTUVWXYZ[\\]^_ abcdefghijklmnopqrstuvwxyz{|}~"

\* The code of a printable character other than the backquote.
Code(ch) == 31 + CHOOSE k \in 1..Len(AsciiTable) : SubSeq(AsciiTable, k, k) = ch

\* The codes of the characters of a text without backquote.
Ascii(text) == [i \in 1..Len(text) |-> Code(SubSeq(text, i, i))]

\* The directive Lint looks for: a backquote and the word include.
IncludeDirective == <<96>> \o Ascii("include")

\* The lines the linted files are made of.
IncludeLines ==
    { IncludeDirective \o Ascii(" \"../up/definitions.v\""),
      IncludeDirective \o Ascii(" \"./local/file.v\""),
      IncludeDirective \o Ascii(" \"sub/file.vh\""),
      IncludeDirective \o Ascii(" \"file.v\""),
      IncludeDirective \o Ascii(" \"c:/doc/definitions.v\""),
      IncludeDirective \o Ascii(" \"D:\\projects\\file.v\""),
      IncludeDirective \o Ascii(" \"/home/user/file.v\""),
      IncludeDirective \o Ascii(" \"\\\\server\\share\\file.v\""),
      IncludeDirective \o Ascii(" \"//server/share/file.v\""),
      <<32, 9>> \o IncludeDirective \o Ascii(" \"/usr/file.vh\""),
      IncludeDirective \o Ascii(" \"c:file.v\""),
      IncludeDirective \o Ascii(" \"\\file.v\""),
      IncludeDirective \o Ascii(" \"1:/file.v\""),
      IncludeDirective \o Ascii(" \"\""),
      IncludeDirective \o Ascii(" \"/unfinished"),
      IncludeDirective \o Ascii(" <std.v>"),
      Ascii("wire [7:0] s = \"/abs\";"),
      Ascii("// ") \o IncludeDirective \o Ascii(" \"/commented.v\"") }

\* The most lines a linted file of the model has.
MaxIncludeLines == 2

\* TextStructureView::Lines of the linted files.
IncludeFiles == SeqsUpTo(IncludeLines, MaxIncludeLines)

\* std::string_view::find of a character from a position on: the index of its
\* first occurrence, 0 when there is none.
FindChar(line, ch, from) ==
    LET hits == {i \in from..Len(line) : line[i] = ch}
    IN  IF hits = {} THEN 0 ELSE CHOOSE i \in hits : \A j \in hits : i <= j

IsAbsolutePathUnixOnly(path) ==
    Len(path) >= 3 /\ path[2] = Code("/")

\* IsAbsolutePath of a path with or without its quotes.
IsAbsolutePath(path) ==
    IF path = <<>> THEN FALSE
    ELSE LET quoted == /\ Len(path) >= 2
                       /\ path[1] = Code("\"")
                       /\ path[Len(path)] = Code("\"")
             p == IF quoted THEN SubSeq(path, 2, Len(path) - 1) ELSE path
             is_alpha == \/ (p[1] >= Code("a") /\ p[1] <= Code("z"))
                         \/ (p[1] >= Code("A") /\ p[1] <= Code("Z"))
         IN  IF p = <<>> THEN FALSE
             ELSE IF p[1] = Code("/") THEN TRUE
             ELSE IF /\ Len(p) >= 3
                     /\ is_alpha
                     /\ p[2] = Code(":")
                     /\ (p[3] = Code("/") \/ p[3] = 92) THEN TRUE
             ELSE IF /\ Len(p) >= 2
                     /\ \/ (p[1] = 92 /\ p[2] = 92)
                        \/ (p[1] = Code("/") /\ p[2] = Code("/")) THEN TRUE
             ELSE FALSE

\* FindIncludePath: the columns of the first and of the second double quote of a
\* line, <<0, 0>> when it has not two.
FindIncludePath(line) ==
    LET first_quote == FindChar(line, Code("\""), 1)
        second_quote == IF first_quote = 0 THEN 0
                        ELSE FindChar(line, Code("\""), first_quote + 1)
    IN  IF first_quote = 0 \/ second_quote = 0 THEN <<0, 0>>
        ELSE <<first_quote, second_quote>>

\* The number of spaces and tabs a line begins with.
LeadingBlanks(line) ==
    LET blank(i) == line[i] = 32 \/ line[i] = 9
        stops == {i \in 1..Len(line) : ~blank(i)}
    IN  IF stops = {} THEN Len(line)
        ELSE (CHOOSE i \in stops : \A j \in stops : i <= j) - 1

StartsWith(text, prefix) ==
    Len(text) >= Len(prefix) /\ SubSeq(text, 1, Len(prefix)) = prefix

\* The body of the loop of Lint: the violations one line adds. The token of a
\* violation is the quoted path where it stands in the line.
IncludeViolations(lines, n) ==
    LET skipped == LeadingBlanks(lines[n])
        trimmed == SubSeq(lines[n], skipped + 1, Len(lines[n]))
        quotes == FindIncludePath(trimmed)
        path == SubSeq(trimmed, quotes[1], quotes[2])
    IN  IF ~StartsWith(trimmed, IncludeDirective) THEN {}
        ELSE IF quotes = <<0, 0>> THEN {}
        ELSE IF ~IsAbsolutePath(path) THEN {}
        ELSE {LintViolation([token_enum |-> "TK_StringLiteral", text |-> path, line |-> n,
                             begin |-> skipped + quotes[1] - 1, end |-> skipped + quotes[2]],
                            Ascii("Absolute path in include: ") \o path
                            \o Ascii(". Use relative paths instead. [GJB 10157 R-2-7]"))}

\* Gjb10157R27Rule::Lint
Gjb10157R27Rule_Lint(lines) == UNION {IncludeViolations(lines, n) : n \in 1..Len(lines)}

\* ---------------------------------------------------------------- lint rules: behaviour
\* One run of the rule GJB-10157-R-2-10 on a file.
CallGjb10157R210Rule ==
    \E text \in LintTexts \cup {AnsiText}, flag \in TopModulesFlags :
        /\ call = NoCall
        /\ call' = [op |-> "GJB-10157-R-2-10", text |-> text, flag |-> flag]
        /\ result' = Gjb10157R210Rule_Lint(LintTreeOf(text), flag, top_modules_)
        /\ UNCHANGED <<has_tracker, current, last_good, top_modules_, last_write>>

\* One run of the rule GJB-10157-R-2-9 on a file.
CallGjb10157R29Rule ==
    \E text \in LintTexts :
        /\ call = NoCall
        /\ call' = [op |-> "GJB-10157-R-2-9", text |-> text]
        /\ result' = Gjb10157R29Rule_Lint(LintTreeOf(text))
        /\ UNCHANGED <<has_tracker, current, last_good, top_modules_, last_write>>

\* One run of the rule GJB-10157-R-2-6 on a file.
CallGjb10157R26Rule ==
    \E text \in LintTexts :
        /\ call = NoCall
        /\ call' = [op |-> "GJB-10157-R-2-6", text |-> text]
        /\ result' = Gjb10157R26Rule_Lint(LintTreeOf(text))
        /\ UNCHANGED <<has_tracker, current, last_good, top_modules_, last_write>>

\* One run of the rule GJB-10157-R-2-5 on a file.
CallGjb10157R25Rule ==
    \E text \in LintTexts :
        /\ call = NoCall
        /\ call' = [op |-> "GJB-10157-R-2-5", text |-> text]
        /\ result' = Gjb10157R25Rule_Lint(LintTreeOf(text))
        /\ UNCHANGED <<has_tracker, current, last_good, top_modules_, last_write>>

\* One run of the rule GJB-10157-A-2-1 on a file.
CallGjb10157A21Rule ==
    \E text \in LintTexts, filename \in Filenames :
        /\ call = NoCall
        /\ call' = [op |-> "GJB-10157-A-2-1", text |-> text, filename |-> filename]
        /\ result' = Gjb10157A21Rule_Lint(LintTreeOf(text), filename)
        /\ UNCHANGED <<has_tracker, current, last_good, top_modules_, last_write>>

\* One run of the rule GJB-10157-R-2-8 on a file.
CallGjb10157R28Rule ==
    \E text \in LintTexts :
        /\ call = NoCall
        /\ call' = [op |-> "GJB-10157-R-2-8", text |-> text]
        /\ result' = Gjb10157R28Rule_Lint(text)
        /\ UNCHANGED <<has_tracker, current, last_good, top_modules_, last_write>>

\* One run of the rule GJB-10157-R-2-7 on a file.
CallGjb10157R27Rule ==
    \E lines \in IncludeFiles :
        /\ call = NoCall
        /\ call' = [op |-> "GJB-10157-R-2-7", lines |-> lines]
        /\ result' = Gjb10157R27Rule_Lint(lines)
        /\ UNCHANGED <<has_tracker, current, last_good, top_modules_, last_write>>

NextLint ==
    \/ \E modules \in SeqsUpTo(ModuleNames, MaxModules) : SetTopModules(modules)
    \/ Clear
    \/ CallGjb10157R210Rule
    \/ Return

\* The runs of the rule GJB-10157-R-2-10 of one process, one after the other,
\* between the writes of the cache of top modules.
SpecLint == Init /\ [][NextLint]_vars

NextRules ==
    \/ CallGjb10157R29Rule
    \/ CallGjb10157R26Rule
    \/ CallGjb10157R25Rule
    \/ CallGjb10157A21Rule
    \/ CallGjb10157R28Rule
    \/ CallGjb10157R27Rule
    \/ Return

\* The runs of the rules that read nothing but the linted file and its name,
\* one after the other.
SpecRules == Init /\ [][NextRules]_vars

\* ---------------------------------------------------------------- concurrent use of the cache
\* A thread that calls SetTopModules and a thread that runs the rule
\* GJB-10157-R-2-10 with an empty flag. The cache has no lock, so the steps of
\* the two calls interleave: last_write holds the call of the writer and the
\* step it is at, call the run of the reader and the step it is at.
WriterActive ==
    /\ last_write.op = "SetTopModules"
    /\ last_write.pc # "done"

\* The name the next turn of the loop of SetTopModules inserts.
NextInserted ==
    LET modules == last_write.modules
        inserted == {i \in 1..Len(modules) : \A j \in 1..i : modules[j] \in top_modules_}
    IN  modules[Cardinality(inserted) + 1]

\* What a read of the set can give: the set as it is, or, when the read
\* overlaps the step the writer is about to take, which is a data race, the
\* names of any part of the set before and after that step.
RacingReads ==
    {top_modules_}
    \cup (IF ~WriterActive THEN {}
          ELSE IF last_write.pc = "clear" THEN SUBSET top_modules_
          ELSE SUBSET (top_modules_ \cup {NextInserted}))

\* TopModulesCache::SetTopModules is entered.
BeginSetTopModules(modules) ==
    /\ ~WriterActive
    /\ last_write' = [op |-> "SetTopModules", modules |-> modules,
                      before |-> top_modules_, pc |-> "clear"]
    /\ UNCHANGED <<has_tracker, current, last_good, call, result, top_modules_>>

\* top_modules_.clear()
SetTopModulesClear ==
    /\ WriterActive
    /\ last_write.pc = "clear"
    /\ top_modules_' = clear(top_modules_)
    /\ last_write' = [last_write EXCEPT !.pc = IF last_write.modules = <<>> THEN "done" ELSE "insert"]
    /\ UNCHANGED <<has_tracker, current, last_good, call, result>>

\* One turn of the loop of SetTopModules: top_modules_.insert(m) for the first
\* name of the list that has not been inserted.
SetTopModulesInsert ==
    /\ WriterActive
    /\ last_write.pc = "insert"
    /\ top_modules_' = top_modules_ \cup {NextInserted}
    /\ last_write' = [last_write EXCEPT
                         !.pc = IF \A j \in 1..Len(last_write.modules) :
                                      last_write.modules[j] \in top_modules_'
                                THEN "done" ELSE "insert"]
    /\ UNCHANGED <<has_tracker, current, last_good, call, result>>

\* Lint is entered with an empty flag: the flag gives no name.
BeginLint ==
    \E text \in {TopText, NonAnsiTopText} :
        /\ call = NoCall
        /\ call' = [op |-> "GJB-10157-R-2-10", text |-> text, flag |-> "", pc |-> "has",
                    has |-> FALSE, top_modules_set |-> {}]
        /\ result' = <<>>
        /\ UNCHANGED <<has_tracker, current, last_good, top_modules_, last_write>>

\* cache.HasTopModules() in Lint; with no top module the run ends.
LintHasTopModules ==
    /\ call.op = "GJB-10157-R-2-10"
    /\ call.pc = "has"
    /\ \E seen \in RacingReads :
          /\ call' = [call EXCEPT !.has = HasTopModules(seen),
                                  !.pc = IF HasTopModules(seen) THEN "get" ELSE "done"]
          /\ result' = IF HasTopModules(seen) THEN result ELSE {}
    /\ UNCHANGED <<has_tracker, current, last_good, top_modules_, last_write>>

\* top_modules_set = cache.GetTopModules() in Lint, and the rest of the run.
\* A copy of the set taken while the writer changes it can also bring the
\* process down.
LintGetTopModules ==
    /\ call.op = "GJB-10157-R-2-10"
    /\ call.pc = "get"
    /\ \/ \E seen \in RacingReads :
             /\ call' = [call EXCEPT !.top_modules_set = GetTopModules(seen), !.pc = "done"]
             /\ result' = Gjb10157R210Rule_Lint(LintTreeOf(call.text), call.flag, seen)
       \/ /\ WriterActive
          /\ call' = [call EXCEPT !.pc = "crashed"]
          /\ result' = << [error |-> "data race on top_modules_"] >>
    /\ UNCHANGED <<has_tracker, current, last_good, top_modules_, last_write>>

\* The run of the rule is over.
EndLint ==
    /\ call.op = "GJB-10157-R-2-10"
    /\ call.pc = "done"
    /\ call' = NoCall
    /\ result' = <<>>
    /\ UNCHANGED <<has_tracker, current, last_good, top_modules_, last_write>>

NextConcurrent ==
    \/ \E modules \in SeqsUpTo(ModuleNames, MaxModules) : BeginSetTopModules(modules)
    \/ SetTopModulesClear
    \/ SetTopModulesInsert
    \/ BeginLint
    \/ LintHasTopModules
    \/ LintGetTopModules
    \/ EndLint

SpecConcurrent == Init /\ [][NextConcurrent]_vars

\* ---------------------------------------------------------------- properties of GJB-10157-R-2-10
R210Called == call.op = "GJB-10157-R-2-10"

\* The names the flag lists: its longest parts without a comma.
FlagNames(flag) ==
    LET n == Len(flag)
        comma(i) == SubSeq(flag, i, i) = ","
    IN  {SubSeq(flag, p[1], p[2]) :
            p \in {q \in (1..n) \X (1..n) :
                      /\ q[1] <= q[2]
                      /\ \A i \in q[1]..q[2] : ~comma(i)
                      /\ (q[1] = 1 \/ comma(q[1] - 1))
                      /\ (q[2] = n \/ comma(q[2] + 1))}}

\* The effective set of top modules of the run: the names of the flag when it
\* lists any, the contents of the cache otherwise.
EffectiveTopModules ==
    IF FlagNames(call.flag) # {} THEN FlagNames(call.flag) ELSE top_modules_

\* Whether a token lies within the text of a subtree.
Covers(symbol, token) ==
    LET leaves == LeavesOf(symbol)
    IN  /\ leaves # <<>>
        /\ leaves[1].begin <= token.begin
        /\ token.end <= leaves[Len(leaves)].end

\* The module declarations of the linted file that carry a name.
LintedModules ==
    {m \in Elements(FindAllModuleDeclarations(LintTreeOf(call.text))) : GetModuleName(m) # Null}

\* C21: the rule GJB-10157-R-2-10 reports only identifiers of modules whose name
\* is in the effective set of top modules, the names of the flag when it lists
\* any and the contents of the cache otherwise; it reports nothing when that
\* set is empty.
C21_OnlyTopModules ==
    (R210Called /\ LintTreeOf(call.text) # Null) =>
        /\ EffectiveTopModules = {} => result = {}
        /\ \A v \in result :
              /\ v.token.token_enum = "SymbolIdentifier"
              /\ \E m \in LintedModules :
                    /\ GetModuleName(m).text \in EffectiveTopModules
                    /\ Covers(m, v.token)

\* The flag names top while the cache holds sub, and the file has both modules
\* with an unused input each: only the input of top is reported.
C21_Witness ==
    /\ R210Called
    /\ call.text = TopText
    /\ call.flag = "top"
    /\ top_modules_ = {"sub"}
    /\ {v.token.text : v \in result} = {"unused"}

\* The ports of the header of a module with their directions, a port without a
\* direction of its own having the direction of the port before it.
RECURSIVE DirectedPorts(_, _, _)
DirectedPorts(decls, i, inherited) ==
    IF i > Len(decls) THEN <<>>
    ELSE LET own == GetDirectionFromPortDeclaration(decls[i])
             direction == IF own = Null THEN inherited ELSE own.text
         IN  << [direction |-> direction, id |-> GetIdentifierFromPortDeclaration(decls[i])] >>
             \o DirectedPorts(decls, i + 1, direction)

\* The identifiers of the input ports of a module, of its header and of its body.
InputPortTokens(m) ==
    LET ansi == DirectedPorts(FindAllPortDeclarations(GetModuleHeader(m)), 1, "inout")
        body == FindAllModulePortDeclarations(m)
    IN  {ansi[i].id : i \in {j \in 1..Len(ansi) : ansi[j].direction = "input" /\ ansi[j].id # Null}}
        \cup {GetIdentifierFromModulePortDeclaration(body[i]) :
                i \in {j \in 1..Len(body) : GetDirectionFromModulePortDeclaration(body[j]).text = "input"}}

\* The identifier tokens of the body of a module outside its non-ANSI port
\* declarations.
BodyIdentifiers(m) ==
    LET leaves == LeavesOf(GetModuleItemList(m))
        ports == FindAllModulePortDeclarations(m)
    IN  {leaves[i].text :
            i \in {j \in 1..Len(leaves) :
                      /\ leaves[j].token_enum = "SymbolIdentifier"
                      /\ \A k \in 1..Len(ports) : ~Covers(ports[k], leaves[j])}}

\* C22: for a module of the effective set of top modules the rule reports one
\* violation, anchored at the identifier of the port, for each input port whose
\* name is no identifier of the body outside the non-ANSI port declarations, and
\* nothing else.
C22_EveryFloatingInput ==
    (R210Called /\ LintTreeOf(call.text) # Null) =>
        \A m \in LintedModules :
            GetModuleName(m).text \in EffectiveTopModules =>
                {v.token : v \in {w \in result : Covers(m, w.token)}}
                    = {t \in InputPortTokens(m) : t.text \notin BodyIdentifiers(m)}

\* ---------------------------------------------------------------- properties of GJB-10157-R-2-9
\* The actual ports of an instance that are given by position.
PositionalPorts(gate) == SearchSyntaxTree(gate, "kActualPositionalPort")

\* C23: an instantiation with ports given by position has one violation,
\* anchored at the first of them, and an instantiation with named ports only or
\* with an empty port list has none.
C23_FirstPositionalPortOnly ==
    (call.op = "GJB-10157-R-2-9" /\ LintTreeOf(call.text) # Null) =>
        \A gate \in Elements(FindAllGateInstances(LintTreeOf(call.text))) :
            LET reported == {v.token : v \in {w \in result : Covers(gate, w.token)}}
            IN  IF PositionalPorts(gate) = <<>> THEN reported = {}
                ELSE reported = {GetLeftmostLeaf(PositionalPorts(gate)[1])}

\* ---------------------------------------------------------------- properties of GJB-10157-R-2-6
\* The tokens that name the declarations of the linted file.
DeclaredTokens == Elements(CollectIdentifiers(LintTreeOf(call.text), 1))

\* The token among the declared ones that comes first in the source among those
\* for which a condition holds.
FirstInSource(tokens) == CHOOSE t \in tokens : \A u \in tokens : t.begin <= u.begin

\* The reference of a declared token: the spelling met first in the source among
\* the declared identifiers that equal it when case is ignored.
ReferenceSpelling(token) ==
    FirstInSource({u \in DeclaredTokens :
                      AsciiStrToLower(u.text) = AsciiStrToLower(token.text)}).text

\* C24: among the declared identifiers that are equal when case is ignored the
\* spelling that comes first in the source is the reference and is never
\* reported; every other spelling is reported once, where it comes first in the
\* source, with a message that names the reference.
C24_ReferenceIsFirstInSource ==
    (call.op = "GJB-10157-R-2-6" /\ LintTreeOf(call.text) # Null) =>
        /\ {v.token : v \in result}
              = {t \in DeclaredTokens :
                    /\ t.text # ReferenceSpelling(t)
                    /\ t = FirstInSource({u \in DeclaredTokens : u.text = t.text})}
        /\ \A v \in result :
              v.reason = CaseDifferenceReason(v.token.text, ReferenceSpelling(v.token))
        /\ \A v, w \in result : v.token = w.token => v = w

\* ---------------------------------------------------------------- properties of GJB-10157-R-2-5
\* The module declarations of the linted file that lie in no other module
\* declaration.
NonNestedModules ==
    LET modules == Elements(FindAllModuleDeclarations(LintTreeOf(call.text)))
    IN  {m \in modules :
            \A o \in modules : o # m => ~Covers(o, GetLeftmostLeaf(m))}

\* Those of them that are not the first of the file.
ExtraModules ==
    {m \in NonNestedModules :
        \E o \in NonNestedModules : GetLeftmostLeaf(o).begin < GetLeftmostLeaf(m).begin}

\* C25: for a file with k module declarations outside any other module the rule
\* reports max(0, k-1) violations, one at the name of each of them but the first
\* of the file; nested modules are not counted and not reported.
C25_OneModulePerFile ==
    (call.op = "GJB-10157-R-2-5" /\ LintTreeOf(call.text) # Null) =>
        /\ {v.token : v \in result} = {GetModuleName(m) : m \in ExtraModules}
        /\ Cardinality(result)
              = (IF NonNestedModules = {} THEN 0 ELSE Cardinality(NonNestedModules) - 1)

\* The file with outer, inner nested in outer, m2 and m3: two violations, at m2
\* and at m3.
C25_Witness ==
    /\ call.op = "GJB-10157-R-2-5"
    /\ call.text = NestedText
    /\ {v.token.text : v \in result} = {"m2", "m3"}
    /\ Cardinality(result) = 2

\* ---------------------------------------------------------------- properties of GJB-10157-A-2-1
A21Called == call.op = "GJB-10157-A-2-1" /\ LintTreeOf(call.text) # Null

\* The stem of the name of the linted file: its part after the last slash and
\* before the first dot that follows.
Stem ==
    LET name == call.filename
        n == Len(name)
        is(i, ch) == SubSeq(name, i, i) = ch
        from == CHOOSE i \in 1..(n + 1) :
                    /\ i = 1 \/ is(i - 1, "/")
                    /\ \A j \in i..n : ~is(j, "/")
        to == CHOOSE j \in (from - 1)..n :
                    /\ j = n \/ is(j + 1, ".")
                    /\ \A i \in from..j : ~is(i, ".")
    IN  SubSeq(name, from, to)

\* The module the one violation is anchored at: the last of the file outside
\* any other module.
LastNonNestedModule ==
    CHOOSE m \in NonNestedModules :
        \A o \in NonNestedModules : GetLeftmostLeaf(o).begin <= GetLeftmostLeaf(m).begin

NoFilenameFinding ==
    \/ call.filename = "-"
    \/ NonNestedModules = {}
    \/ \E m \in NonNestedModules : GetModuleName(m).text = Stem

\* C26 as stated: no violation when the input is stdin, the file has no module
\* or a module outside any other module is named like the stem of the file; in
\* every other case one violation, anchored at the name of the last module
\* outside any other module.
C26_FilenameMatchesModule ==
    A21Called =>
        IF NoFilenameFinding THEN result = {}
        ELSE /\ Cardinality(result) = 1
             /\ {v.token : v \in result} = {GetModuleName(LastNonNestedModule)}

\* C26 amended: as stated, and no violation either when the stem of the file
\* name is empty.
C26_FilenameMatchesModuleOrNoStem ==
    A21Called =>
        IF NoFilenameFinding \/ Stem = "" THEN result = {}
        ELSE /\ Cardinality(result) = 1
             /\ {v.token : v \in result} = {GetModuleName(LastNonNestedModule)}

\* The file inner.sv holds outer, inner nested in outer, m2 and m3: the nested
\* module does not count as a match and m3 is reported.
C26_Witness ==
    /\ call.op = "GJB-10157-A-2-1"
    /\ call.text = NestedText
    /\ call.filename = "inner.sv"
    /\ {v.token.text : v \in result} = {"m3"}

\* ---------------------------------------------------------------- properties of GJB-10157-R-2-8
\* The five types the rule allows.
AllowedTypeKeywords == {"TK_reg", "TK_wire", "TK_integer", "TK_tri", "TK_parameter"}

\* The keywords of the language that name the type of a variable, a net or a
\* parameter.
DataTypeKeywords ==
    AllowedTypeKeywords
    \cup {"TK_logic", "TK_bit", "TK_byte", "TK_int", "TK_shortint", "TK_longint",
          "TK_real", "TK_realtime", "TK_shortreal", "TK_string", "TK_time", "TK_wreal",
          "TK_chandle", "TK_event",
          "TK_tri0", "TK_tri1", "TK_triand", "TK_trior", "TK_trireg", "TK_wand",
          "TK_wor", "TK_uwire", "TK_supply0", "TK_supply1"}

\* C27: every token of the file that is a data-type keyword other than reg,
\* wire, integer, tri and parameter is reported, anchored at that token, and no
\* other token is.
C27_OnlyFiveTypesAllowed ==
    call.op = "GJB-10157-R-2-8" =>
        {v.token : v \in result}
            = {t \in Elements(LintTokenStream(call.text)) :
                  t.token_enum \in DataTypeKeywords \ AllowedTypeKeywords}

\* ---------------------------------------------------------------- properties of GJB-10157-R-2-7
\* A line is blank up to its column k and reads the directive from there.
DirectiveAt(line, k) ==
    /\ \A i \in 1..k : line[i] \in {32, 9}
    /\ Len(line) >= k + Len(IncludeDirective)
    /\ \A i \in 1..Len(IncludeDirective) : line[k + i] = IncludeDirective[i]

\* The first two double quotes of a line are at the columns a and b.
QuotedAt(line, a, b) ==
    /\ a < b
    /\ line[a] = 34 /\ line[b] = 34
    /\ \A i \in 1..(b - 1) : i # a => line[i] # 34

Letters == {Code(SubSeq(UpperCaseLetters, k, k)) : k \in 1..Len(UpperCaseLetters)}
           \cup {Code(SubSeq(LowerCaseLetters, k, k)) : k \in 1..Len(LowerCaseLetters)}

\* A path begins with a slash, with a letter, a colon and a slash or backslash,
\* or with two backslashes.
AbsolutePath(p) ==
    \/ Len(p) >= 1 /\ p[1] = 47
    \/ Len(p) >= 3 /\ p[1] \in Letters /\ p[2] = 58 /\ p[3] \in {47, 92}
    \/ Len(p) >= 2 /\ p[1] = 92 /\ p[2] = 92

\* The quoted paths the rule is to report: of every line whose first non-blank
\* text is the directive, the first double-quoted text when it is an absolute
\* path.
AbsoluteIncludes ==
    UNION {LET line == call.lines[n]
           IN  {[token_enum |-> "TK_StringLiteral", text |-> SubSeq(line, q[1], q[2]),
                 line |-> n, begin |-> q[1] - 1, end |-> q[2]] :
                   q \in {t \in (1..Len(line)) \X (1..Len(line)) :
                             /\ \E k \in 0..Len(line) : DirectiveAt(line, k)
                             /\ QuotedAt(line, t[1], t[2])
                             /\ AbsolutePath(SubSeq(line, t[1] + 1, t[2] - 1))}} :
           n \in 1..Len(call.lines)}

\* C28: the rule reports a line exactly when its first non-blank text is the
\* include directive, it has a double-quoted path and that path is absolute; the
\* violation is anchored at the quoted path, and there is one for the line.
C28_AbsoluteIncludePaths ==
    call.op = "GJB-10157-R-2-7" =>
        /\ {v.token : v \in result} = AbsoluteIncludes
        /\ Cardinality(result) = Cardinality(AbsoluteIncludes)

\* A file with a relative include in its first line and an include of a path
\* with a drive letter and a backslash in its second: the second is reported.
C28_Witness ==
    /\ call.op = "GJB-10157-R-2-7"
    /\ Len(call.lines) = 2
    /\ call.lines[1] = IncludeDirective \o Ascii(" \"file.v\"")
    /\ call.lines[2] = IncludeDirective \o Ascii(" \"D:\\projects\\file.v\"")
    /\ {v.token.line : v \in result} = {2}
    /\ \A v \in result : v.token.text = Ascii("\"D:\\projects\\file.v\"")

\* ---------------------------------------------------------------- properties of the concurrent cache
\* The contents a reader may see: during a call of SetTopModules what the cache
\* held before it and the names of its list, else what the cache holds.
WholeContents ==
    IF WriterActive
    THEN {last_write.before, Elements(last_write.modules)}
    ELSE {top_modules_}

\* C30: a run of the rule that reads the cache while SetTopModules is under way
\* is answered from the whole contents before the call or the whole new
\* contents, never from the set between the clear and the last insert.
C30_ReaderSeesWholeSets ==
    [][ /\ (call.op = "GJB-10157-R-2-10" /\ call.pc = "has" /\ call'.pc # "has")
            => call'.has \in {contents # {} : contents \in WholeContents}
        /\ (call.op = "GJB-10157-R-2-10" /\ call.pc = "get" /\ call'.pc # "get")
            => (call'.pc = "done" => call'.top_modules_set \in WholeContents) ]_vars

====
